---- MODULE Spec2Model ----
(***************************************************************************)
(* A model of sqmap's Bloch-sphere coordinate transforms                   *)
(* (visualisation/transformers.py), of the periodicity stitcher            *)
(* (visualisation/flatmap.py, account_for_periodicity) and of the plotting *)
(* functions that call it (flatmap.py, flatmap_cartopy.py, concise.py).    *)
(*                                                                         *)
(* Numbers.  The transforms work on floats; the model computes on exact    *)
(* numbers of two kinds.                                                   *)
(*  - A coordinate or matrix entry is a record [c, f] standing for the     *)
(*    real number c/Den + f*phi, where phi = 1e-10/EpsFine is a fixed tiny  *)
(*    quantity: c counts coarse steps of 1/Den, f counts fine steps of      *)
(*    phi.  Sums, differences and halves are taken component by component; *)
(*    the only comparison the code makes (norm < 1 + 1e-10) is decided     *)
(*    exactly, see NormBelow.                                              *)
(*  - An angle or any value handed to the stitcher is an integer number of *)
(*    millionths (of a radian, of a degree, of the payload's unit).        *)
(***************************************************************************)
EXTENDS Integers, Sequences, FiniteSets, TLC

VARIABLES
    debug,      \* the interpreter's __debug__: FALSE under `python -O`
    input,      \* transforms: the argument handed to the function under test
    result,     \* transforms: what the last call returned or raised
    heap,       \* stitcher: the arrays that exist, by object identity
    args,       \* stitcher: the positional arguments of the call
    ret,        \* stitcher: what the call returned or raised
    samples,    \* plots: the (ideal point, density matrix) pairs to plot
    plot,       \* plots: the plotting function that ran and how it ended
    calls,      \* plots: the calls of the stitcher it made, in order
    loader,     \* backends: whether sqmap.backends is imported, and how that ended
    PLACEMENTS, \* backends: the dict _PLACEMENTS, processor type -> layout object
    emitted,    \* backends: the warnings emitted while importing
    chipcall    \* backends, chip: the last call made and how it ended

tvars == <<debug, input, result>>

svars == <<heap, args, ret>>

pvars == <<samples, plot, calls>>

cvars == <<loader, PLACEMENTS, emitted, chipcall>>

vars == <<debug, input, result, heap, args, ret, samples, plot, calls,
          loader, PLACEMENTS, emitted, chipcall>>

(***************************************************************************)
(* Bounds of the model.                                                    *)
(***************************************************************************)
\* Cartesian coordinates are the multiples of 1/Grid between -(1 + 1/Grid)
\* and 1 + 1/Grid (plus a fine part).
Grid == 2
\* 1e-10 is 2*EpsHalf fine steps.
EpsHalf == 2
\* Components of an arbitrary complex matrix entry range over -1..MatRange
\* coarse steps.
MatRange == 1

\* Longest longitude array handed to the stitcher (the five-sample example
\* apart).
MaxLen == 3
\* Most payload arrays passed in one call.
MaxPayloads == 2

\* Most samples handed to a plotting function.
MaxSamples == 2
\* Most data files handed to get_data.
MaxFiles == 2

\* Coarse steps per unit.  Even, so that halving a coordinate is exact.
Den == 2 * Grid

(***************************************************************************)
(* Two-scale numbers and complex numbers.                                  *)
(***************************************************************************)
Num(c, f) == [c |-> c, f |-> f]

Zero == Num(0, 0)

One == Num(Den, 0)

NumAdd(a, b) == Num(a.c + b.c, a.f + b.f)

NumSub(a, b) == Num(a.c - b.c, a.f - b.f)

NumScale(k, a) == Num(k * a.c, k * a.f)

\* a / 2, exact on the numbers whose two parts are even.
NumHalf(a) == Num(a.c \div 2, a.f \div 2)

Cx(re, im) == [re |-> re, im |-> im]

CxAdd(u, v) == Cx(NumAdd(u.re, v.re), NumAdd(u.im, v.im))

CxSub(u, v) == Cx(NumSub(u.re, v.re), NumSub(u.im, v.im))

CxHalf(u) == Cx(NumHalf(u.re), NumHalf(u.im))

\* The product of the real number s with the Gaussian integer g = gr + i*gi.
CxTimes(s, g) == Cx(NumScale(g[1], s), NumScale(g[2], s))

MatAdd(A, B) == [i \in 1..2 |-> [j \in 1..2 |-> CxAdd(A[i][j], B[i][j])]]

MatHalf(A) == [i \in 1..2 |-> [j \in 1..2 |-> CxHalf(A[i][j])]]

\* s * P for a real s and a matrix P of Gaussian integers.
MatTimes(s, P) == [i \in 1..2 |-> [j \in 1..2 |-> CxTimes(s, P[i][j])]]

(***************************************************************************)
(* sqt._constants: the identity and the Pauli matrices, entries written as *)
(* <<real part, imaginary part>>.                                          *)
(***************************************************************************)
PauliI == << << <<1, 0>>, <<0, 0>> >>, << <<0, 0>>, <<1, 0>> >> >>

PauliX == << << <<0, 0>>, <<1, 0>> >>, << <<1, 0>>, <<0, 0>> >> >>

PauliY == << << <<0, 0>>, <<0, -1>> >>, << <<0, 1>>, <<0, 0>> >> >>

PauliZ == << << <<1, 0>>, <<0, 0>> >>, << <<0, 0>>, <<-1, 0>> >> >>

(***************************************************************************)
(* transformers.py                                                         *)
(***************************************************************************)
\* 1e-10, in fine steps.
EpsFine == 2 * EpsHalf

\* numpy.linalg.norm(p) < 1 + eps, for eps fine steps.  With p = c/Den + f*phi
\* per coordinate, |p|^2 = S0/Den^2 + (phi/Den)*S1 + phi^2*S2 with
\* S0 = sum c^2, S1 = 2 * sum c*f, S2 = sum f^2, and (1 + eps*phi)^2 =
\* 1 + 2*eps*phi + eps^2*phi^2.  As phi*S2 and phi*eps^2 stay below 1/Den for
\* every number of the model (|f| <= 1000*EpsFine), the comparison of the two
\* sides is the lexicographic comparison of (S0, S1, S2) with
\* (Den^2, 2*Den*eps, eps^2).
NormBelow(p, eps) ==
    LET S0 == p[1].c * p[1].c + p[2].c * p[2].c + p[3].c * p[3].c
        S1 == 2 * (p[1].c * p[1].f + p[2].c * p[2].f + p[3].c * p[3].f)
        S2 == p[1].f * p[1].f + p[2].f * p[2].f + p[3].f * p[3].f
    IN  \/ S0 < Den * Den
        \/ S0 = Den * Den /\ S1 < 2 * Den * eps
        \/ S0 = Den * Den /\ S1 = 2 * Den * eps /\ S2 < eps * eps

\* transformers.py:8-22
bloch_vector_to_density_matrix(s) ==
    MatHalf(MatAdd(MatAdd(MatAdd(MatTimes(One, PauliI), MatTimes(s[1], PauliX)),
                          MatTimes(s[2], PauliY)),
                   MatTimes(s[3], PauliZ)))

\* density2bloch with the two off-diagonal entries exchanged in y.
density2bloch_swapped(density_matrix) ==
    LET a == density_matrix[1][1]
        b == density_matrix[1][2]
        c == density_matrix[2][1]
        d == density_matrix[2][2]
    IN  <<CxAdd(c, b).re, CxSub(b, c).im, CxSub(a, d).re>>

\* transformers.py:25-39
density2bloch(density_matrix) ==
    LET a == density_matrix[1][1]
        b == density_matrix[1][2]
        c == density_matrix[2][1]
        d == density_matrix[2][2]
        x == CxAdd(c, b).re
        y == CxSub(c, b).im
        z == CxSub(a, d).re
    IN  <<x, y, z>>

NoValue == "NoValue"

Returned(v) == [status |-> "returned", value |-> v]

Raised(e) == [status |-> e, value |-> NoValue]

\* cartesian2density with the check norm < 1 (no tolerance).
cartesian2density_strict(x, y, z, dbg) ==
    IF dbg /\ ~NormBelow(<<x, y, z>>, 0)
    THEN Raised("AssertionError")
    ELSE Returned(bloch_vector_to_density_matrix(<<x, y, z>>))

\* transformers.py:96-113.  The unit-ball check is an assert statement: it
\* is compiled only when __debug__ is true.
cartesian2density(x, y, z, dbg) ==
    LET coordinates == <<x, y, z>>
    IN  IF dbg /\ ~NormBelow(coordinates, EpsFine)
        THEN Raised("AssertionError")
        ELSE Returned(bloch_vector_to_density_matrix(coordinates))

(***************************************************************************)
(* Inputs of the transforms.                                               *)
(***************************************************************************)
\* Fine parts: 0, -0.5e-10.., just below 1e-10, 1e-10, just above, 1e-7.
FineParts == {0, -2, EpsFine - 2, EpsFine, EpsFine + 2, 1000 * EpsFine}

CoarseCoords == {2 * k : k \in -(Grid + 1)..(Grid + 1)}

Points ==
    {<<Num(cx, fx), Num(cy, fy), Num(cz, 0)>> :
        cx \in CoarseCoords, fx \in FineParts,
        cy \in CoarseCoords, fy \in {0, 2}, cz \in CoarseCoords}

MatComponents == {Num(c, 0) : c \in -1..MatRange}

MatEntries == {Cx(re, im) : re \in MatComponents, im \in MatComponents}

\* Arbitrary 2x2 complex matrices.
Matrices ==
    {<< <<a, b>>, <<c, d>> >> : a \in MatEntries, b \in MatEntries,
                                c \in MatEntries, d \in MatEntries}

\* Valid one-qubit density matrices: Hermitian, trace 1, Bloch vector in the
\* closed unit ball (norm < 1 + 0 or norm = 1).
BlochOf(a, b) == <<NumScale(2, b.re), NumScale(-2, b.im),
                   NumSub(NumScale(2, a), One)>>

InClosedBall(p) ==
    \/ NormBelow(p, 0)
    \/ /\ p[1].c * p[1].c + p[2].c * p[2].c + p[3].c * p[3].c = Den * Den
       /\ p[1].c * p[1].f + p[2].c * p[2].f + p[3].c * p[3].f = 0
       /\ p[1].f = 0 /\ p[2].f = 0 /\ p[3].f = 0

DensityMatrices ==
    {<< <<Cx(a, Zero), b>>, <<Cx(b.re, NumScale(-1, b.im)), Cx(NumSub(One, a), Zero)>> >> :
        a \in {Num(c, f) : c \in 0..Den, f \in {0, -1}},
        b \in {Cx(Num(re, fr), Num(im, 0)) : re \in -Grid..Grid, fr \in {0, 1},
                                             im \in -Grid..Grid}}

ValidDensityMatrices ==
    {m \in DensityMatrices : InClosedBall(BlochOf(m[1][1].re, m[1][2]))}

TransformInputs ==
    {[kind |-> "point", val |-> p] : p \in Points}
        \cup {[kind |-> "matrix", val |-> m] : m \in Matrices}
        \cup {[kind |-> "rho", val |-> m] : m \in ValidDensityMatrices}

NoCall == [op |-> "none", status |-> "none", value |-> NoValue]

NoChipCall == [op |-> "none", arg |-> NoValue, status |-> "none", value |-> NoValue]

\* sqmap.backends is not imported: its dict does not exist yet.
NotImported ==
    /\ loader = "not imported"
    /\ PLACEMENTS = <<>>
    /\ emitted = <<>>
    /\ chipcall = NoChipCall

NoPlot == [func |-> "none", status |-> "none"]

Outcome(op, r) == [op |-> op, status |-> r.status, value |-> r.value]

(***************************************************************************)
(* The transforms as a state machine: an input is drawn, then a function   *)
(* is applied to it.                                                       *)
(***************************************************************************)
TInit ==
    /\ debug \in BOOLEAN
    /\ input \in TransformInputs
    /\ result = NoCall
    /\ heap = <<>>
    /\ args = <<>>
    /\ ret = [status |-> "none", value |-> NoValue]
    /\ samples = <<>>
    /\ plot = NoPlot
    /\ calls = <<>>
    /\ NotImported

Call_cartesian2density ==
    /\ input.kind = "point"
    /\ result' = Outcome("cartesian2density",
                         cartesian2density(input.val[1], input.val[2], input.val[3], debug))
    /\ UNCHANGED <<debug, input, svars, pvars, cvars>>

Call_density2bloch ==
    /\ input.kind \in {"matrix", "rho"}
    /\ result' = Outcome("density2bloch", Returned(density2bloch(input.val)))
    /\ UNCHANGED <<debug, input, svars, pvars, cvars>>

\* cartesian2density(*density2bloch(rho))
Call_density_round_trip ==
    /\ input.kind = "rho"
    /\ LET v == density2bloch(input.val)
       IN  result' = Outcome("density_round_trip",
                             cartesian2density(v[1], v[2], v[3], debug))
    /\ UNCHANGED <<debug, input, svars, pvars, cvars>>

\* density2bloch(cartesian2density(*p)), where cartesian2density returns
Call_cartesian_round_trip ==
    /\ input.kind = "point"
    /\ LET rho == cartesian2density(input.val[1], input.val[2], input.val[3], debug)
       IN  result' = Outcome("cartesian_round_trip",
                             IF rho.status = "returned"
                             THEN Returned(density2bloch(rho.value))
                             ELSE rho)
    /\ UNCHANGED <<debug, input, svars, pvars, cvars>>

TNext ==
    \/ Call_cartesian2density
    \/ Call_density2bloch
    \/ Call_density_round_trip
    \/ Call_cartesian_round_trip

SpecTransform == TInit /\ [][TNext]_vars

(***************************************************************************)
(* Claims about the transforms (checked under SpecTransform).              *)
(***************************************************************************)
\* C1: cartesian2density raises, and returns no matrix, for every point of
\* norm >= 1 + 1e-10, in every execution; it returns for every point of norm
\* <= 1.
C1_RejectsOutsideBall ==
    result.op = "cartesian2density" =>
        /\ ~NormBelow(input.val, EpsFine) =>
               result.status = "AssertionError" /\ result.value = NoValue
        /\ InClosedBall(input.val) => result.status = "returned"

\* C2 as claimed: density2bloch returns x = Re(rho01 + rho10),
\* y = Im(rho01 - rho10), z = Re(rho00 - rho11).
C2_AsClaimed ==
    result.op = "density2bloch" =>
        LET rho == input.val
        IN  result.value = <<NumAdd(rho[1][2].re, rho[2][1].re),
                             NumSub(rho[1][2].im, rho[2][1].im),
                             NumSub(rho[1][1].re, rho[2][2].re)>>

\* C2 as amended: density2bloch returns x = Re(rho01 + rho10),
\* y = Im(rho10 - rho01), z = Re(rho00 - rho11).
C2_Amended ==
    result.op = "density2bloch" =>
        LET rho == input.val
        IN  /\ result.status = "returned"
            /\ result.value = <<NumAdd(rho[1][2].re, rho[2][1].re),
                                NumSub(rho[2][1].im, rho[1][2].im),
                                NumSub(rho[1][1].re, rho[2][2].re)>>

\* density2bloch has been applied to a matrix whose off-diagonal entries
\* have different imaginary parts.
C2_Witness ==
    /\ result.op = "density2bloch"
    /\ input.kind = "matrix"
    /\ input.val[1][2].im # input.val[2][1].im

\* C3: for every valid density matrix rho,
\* cartesian2density(*density2bloch(rho)) returns (the unit-ball check does
\* not fail) and the matrix returned equals rho entry by entry.
C3_DensityRoundTrip ==
    result.op = "density_round_trip" =>
        /\ result.status = "returned"
        /\ \A i \in 1..2 : \A j \in 1..2 : result.value[i][j] = input.val[i][j]

\* The round trip has been made on a pure state (Bloch norm exactly 1) with
\* a non-real off-diagonal entry.
C3_Witness ==
    /\ result.op = "density_round_trip"
    /\ result.status = "returned"
    /\ input.val[1][2].im # Zero
    /\ ~NormBelow(BlochOf(input.val[1][1].re, input.val[1][2]), 0)

(***************************************************************************)
(* flatmap.py: the periodicity stitcher.  Values are integers counting     *)
(* millionths.                                                             *)
(***************************************************************************)
Micro == 1000 * 1000

\* numpy.pi, in millionths of a radian (cut to an even number of them, so
\* that pi/2 is a whole number too).
Pi == 3141592

\* numpy.isclose's defaults rtol = 1e-5 and atol = 1e-8, as 1/rtol and 1/atol.
RtolInv == 100000

AtolInv == 100000000

Abs(n) == IF n < 0 THEN -n ELSE n

\* numpy.isclose(a, b): |a - b| <= atol + rtol * |b|.  In millionths and
\* multiplied by 1/rtol: |a - b| * RtolInv <= Micro * RtolInv / AtolInv + |b|;
\* |a - b| being an integer, that is the comparison with the floor below.
isclose(a, b) ==
    Abs(a - b) <= (Micro \div (AtolInv \div RtolInv) + Abs(b)) \div RtolInv

\* numpy.nonzero(numpy.isclose(Y, b)): the indices, ascending.
CloseIndices(Y, b) ==
    SelectSeq([i \in 1..Len(Y) |-> i], LAMBDA i : isclose(Y[i], b))

\* A[indices]
Take(A, indices) == [k \in 1..Len(indices) |-> A[indices[k]]]

\* A + s, element-wise
Shift(A, s) == [k \in 1..Len(A) |-> A[k] + s]

ArrayArg(ref) == [kind |-> "array", v |-> ref]

ScalarArg(val) == [kind |-> "scalar", v |-> val]

\* The stitcher testing Y == -pi and Y == pi exactly instead of isclose.
account_for_periodicity_exact(h, X, Y, Z) ==
    LET im == SelectSeq([i \in 1..Len(h[Y.v]) |-> i], LAMBDA i : h[Y.v][i] = -Pi)
        ip == SelectSeq([i \in 1..Len(h[Y.v]) |-> i], LAMBDA i : h[Y.v][i] = Pi)
        x == h[X.v] \o Take(h[X.v], im) \o Take(h[X.v], ip)
        y == h[Y.v] \o Shift(Take(h[Y.v], im), 2 * Pi) \o Shift(Take(h[Y.v], ip), -(2 * Pi))
        z == h[Z.v] \o Take(h[Z.v], im) \o Take(h[Z.v], ip)
    IN  IF X.kind # "array" \/ Z.kind # "array"
        THEN [heap |-> h, status |-> "TypeError", value |-> NoValue]
        ELSE [heap |-> h \o <<x, y, z>>, status |-> "returned",
              value |-> <<Len(h) + 1, Len(h) + 2, Len(h) + 3>>]

\* The stitcher appending the payload copies of the two seams in the other
\* order than the longitude copies.
account_for_periodicity_misaligned(h, X, Y, Z) ==
    LET im == CloseIndices(h[Y.v], -Pi)
        ip == CloseIndices(h[Y.v], Pi)
        x == h[X.v] \o Take(h[X.v], im) \o Take(h[X.v], ip)
        y == h[Y.v] \o Shift(Take(h[Y.v], im), 2 * Pi) \o Shift(Take(h[Y.v], ip), -(2 * Pi))
        z == h[Z.v] \o Take(h[Z.v], ip) \o Take(h[Z.v], im)
    IN  IF X.kind # "array" \/ Z.kind # "array"
        THEN [heap |-> h, status |-> "TypeError", value |-> NoValue]
        ELSE [heap |-> h \o <<x, y, z>>, status |-> "returned",
              value |-> <<Len(h) + 1, Len(h) + 2, Len(h) + 3>>]

\* The stitcher shifting the seam samples of Y in place (Y[indices] += 2*pi)
\* before concatenating.
account_for_periodicity_inplace(h, X, Y, Z) ==
    LET im == CloseIndices(h[Y.v], -Pi)
        ip == CloseIndices(h[Y.v], Pi)
        x == h[X.v] \o Take(h[X.v], im) \o Take(h[X.v], ip)
        y == h[Y.v] \o Shift(Take(h[Y.v], im), 2 * Pi) \o Shift(Take(h[Y.v], ip), -(2 * Pi))
        z == h[Z.v] \o Take(h[Z.v], im) \o Take(h[Z.v], ip)
        shifted == [i \in 1..Len(h[Y.v]) |->
                        IF isclose(h[Y.v][i], -Pi) THEN h[Y.v][i] + 2 * Pi ELSE h[Y.v][i]]
    IN  IF X.kind # "array" \/ Z.kind # "array"
        THEN [heap |-> h, status |-> "TypeError", value |-> NoValue]
        ELSE [heap |-> [h EXCEPT ![Y.v] = shifted] \o <<x, y, z>>, status |-> "returned",
              value |-> <<Len(h) + 1, Len(h) + 2, Len(h) + 3>>]

\* flatmap.py:23-35.  The arguments X, Y and Z are references into the heap
\* h (or a plain number); the three concatenations allocate three new arrays.
\* Y is the array tested against -pi and +pi and shifted by 2*pi.  Subscripting
\* a plain number (X[indices] at line 30, Z[indices] at line 34) raises
\* TypeError.
account_for_periodicity(h, X, Y, Z) ==
    IF X.kind # "array" \/ Z.kind # "array"
    THEN [heap |-> h, status |-> "TypeError", value |-> NoValue]
    ELSE
    LET indices_minus_pi == CloseIndices(h[Y.v], -Pi)
        indices_plus_pi == CloseIndices(h[Y.v], Pi)
        x == h[X.v] \o Take(h[X.v], indices_minus_pi) \o Take(h[X.v], indices_plus_pi)
        y == h[Y.v] \o Shift(Take(h[Y.v], indices_minus_pi), 2 * Pi)
                    \o Shift(Take(h[Y.v], indices_plus_pi), -(2 * Pi))
        z == h[Z.v] \o Take(h[Z.v], indices_minus_pi) \o Take(h[Z.v], indices_plus_pi)
        n == Len(h)
    IN  [heap |-> h \o <<x, y, z>>,
         status |-> "returned",
         value |-> <<n + 1, n + 2, n + 3>>]

\* A call account_for_periodicity(*a): the function declares exactly three
\* positional parameters (flatmap.py:23-25), none with a default and no
\* *args, so any other number of arguments raises TypeError before the body
\* runs.
call_account_for_periodicity(h, a) ==
    IF Len(a) # 3
    THEN [heap |-> h, status |-> "TypeError", value |-> NoValue]
    ELSE account_for_periodicity(h, a[1], a[2], a[3])

(***************************************************************************)
(* Inputs of the stitcher: index-aligned arrays of equal length.           *)
(***************************************************************************)
\* The tolerance of isclose at +-pi is 31 millionths.
LonValues == {-Pi, Pi, 0, Pi - 31, Pi - 32, 31 - Pi}

LatValues == {0, Pi \div 2}

SeqsOf(S, n) == [1..n -> S]

\* The five-sample example, in millionths of a degree.
ExampleLon == <<-180 * Micro, -90 * Micro, 0, 90 * Micro, 180 * Micro - 100>>

ExampleLat == <<0, 45 * Micro, 90 * Micro, -45 * Micro, 0>>

\* The j-th payload array of a call holds 100 * j + i at index i: every
\* sample's payload differs from every other's.
Payloads(n, k) == [j \in 1..k |-> [i \in 1..n |-> 100 * j + i]]

\* heap = <<latitudes, longitudes, payload 1, ..., payload k>>
StitchHeaps ==
    {<<XY[1], XY[2]>> \o Payloads(Len(XY[1]), k) :
        XY \in UNION {SeqsOf(LatValues, n) \X SeqsOf(LonValues, n) : n \in 0..MaxLen},
        k \in 0..MaxPayloads}
      \cup {<<ExampleLat, ExampleLon>> \o Payloads(5, k) : k \in 0..MaxPayloads}

PayloadArgs(h) == [j \in 1..(Len(h) - 2) |-> ArrayArg(j + 2)]

\* The ways a caller lays out its arguments: as the definition names them
\* (X = latitude, Y = longitude, payloads), or as the calls of concise.py:64-66
\* do (period, longitude, latitude, payloads).
StitchArgs(h) ==
    {<<ArrayArg(1), ArrayArg(2)>> \o PayloadArgs(h)}
        \cup {<<ScalarArg(p), ArrayArg(2), ArrayArg(1)>> \o PayloadArgs(h) :
                  p \in {2 * Pi, 360 * Micro}}

SInit ==
    /\ debug = TRUE
    /\ input = [kind |-> "none", val |-> NoValue]
    /\ result = NoCall
    /\ heap \in StitchHeaps
    /\ args \in StitchArgs(heap)
    /\ ret = [status |-> "none", value |-> NoValue]
    /\ samples = <<>>
    /\ plot = NoPlot
    /\ calls = <<>>
    /\ NotImported

Stitch ==
    /\ ret.status = "none"
    /\ LET r == call_account_for_periodicity(heap, args)
       IN  /\ heap' = r.heap
           /\ ret' = [status |-> r.status, value |-> r.value]
    /\ UNCHANGED <<args, tvars, pvars, cvars>>

SNext == Stitch

SpecStitch == SInit /\ [][SNext]_vars

(***************************************************************************)
(* Claims about the stitcher (checked under SpecStitch).  In a call that   *)
(* returned, the arguments bound to X, Y, Z are args[1], args[2], args[3]  *)
(* and the arrays returned are ret.value[1], ret.value[2], ret.value[3].   *)
(***************************************************************************)
InX == heap[args[1].v]

InY == heap[args[2].v]

InZ == heap[args[3].v]

OutX == heap[ret.value[1]]

OutY == heap[ret.value[2]]

OutZ == heap[ret.value[3]]

\* The samples at the seam -period/2 and at the seam +period/2, the period
\* being the stitcher's 2*pi and the tolerance being that of numpy.isclose:
\* 1e-8 + 1e-5 * pi, which is 31 millionths (and a fraction).
SeamMinus == {i \in 1..Len(InY) : Abs(InY[i] + Pi) <= 31}

SeamPlus == {i \in 1..Len(InY) : Abs(InY[i] - Pi) <= 31}

\* The k-th smallest element of the set of indices S.
Kth(S, k) == CHOOSE i \in S : Cardinality({j \in S : j < i}) = k - 1

\* C4: the stitcher returns the input samples in their order, then one copy
\* of every sample at the seam -period/2 with its longitude increased by the
\* period, then one copy of every sample at the seam +period/2 with its
\* longitude decreased by the period, and nothing else.
C4_StitchedOutput ==
    ret.status = "returned" =>
        LET n == Len(InY)
            m == Cardinality(SeamMinus)
            q == Cardinality(SeamPlus)
        IN  /\ Len(OutY) = n + m + q
            /\ \A i \in 1..n :
                   OutY[i] = InY[i] /\ OutX[i] = InX[i] /\ OutZ[i] = InZ[i]
            /\ \A k \in 1..m :
                   /\ OutY[n + k] = InY[Kth(SeamMinus, k)] + 2 * Pi
                   /\ OutX[n + k] = InX[Kth(SeamMinus, k)]
                   /\ OutZ[n + k] = InZ[Kth(SeamMinus, k)]
            /\ \A k \in 1..q :
                   /\ OutY[n + m + k] = InY[Kth(SeamPlus, k)] - 2 * Pi
                   /\ OutX[n + m + k] = InX[Kth(SeamPlus, k)]
                   /\ OutZ[n + m + k] = InZ[Kth(SeamPlus, k)]

\* A call has returned with samples duplicated at both seams, one of them
\* close to the seam without being on it.
C4_Witness ==
    /\ ret.status = "returned"
    /\ SeamMinus # {}
    /\ \E i \in SeamPlus : InY[i] # Pi

\* C5: the arrays returned have one length, and the latitude and the payload
\* at every output index are those of the one input sample whose longitude
\* gave the output longitude (as it was, or shifted by a period).
C5_IndexAligned ==
    ret.status = "returned" =>
        /\ Len(OutX) = Len(OutY)
        /\ Len(OutZ) = Len(OutY)
        /\ \A i \in 1..Len(OutY) :
               \E j \in 1..Len(InY) :
                   /\ OutY[i] \in {InY[j], InY[j] + 2 * Pi, InY[j] - 2 * Pi}
                   /\ OutX[i] = InX[j]
                   /\ OutZ[i] = InZ[j]

\* A call has returned duplicates of two samples, one per seam, that differ
\* in latitude.
C5_Witness ==
    /\ ret.status = "returned"
    /\ \E i \in SeamMinus : \E j \in SeamPlus : InX[i] # InX[j] /\ InY[j] # Pi
    /\ Len(OutZ) > Len(InZ) + 1

\* C9: a call of the stitcher leaves every array that existed before it as
\* it was (same length, same values), and the arrays it returns are new
\* objects.
C9_InputsUntouched ==
    [][/\ Len(heap') >= Len(heap)
       /\ \A r \in 1..Len(heap) : heap'[r] = heap[r]
       /\ ret'.status = "returned" =>
              \A k \in 1..3 : ret'.value[k] > Len(heap)]_vars

\* A call has returned arrays longer than the ones it was given.
C9_Witness ==
    /\ ret.status = "returned"
    /\ Len(OutY) > Len(InY)
    /\ Len(InY) = Len(heap[2])

\* C10: given the longitudes [-180, -90, 0, 90, 179.9999] with period 360
\* (and matching latitude and payload arrays), the call returns the five
\* samples and one duplicate, the -180 sample at longitude +180.
C10_ExampleOneDuplicate ==
    /\ ret.status # "none"
    /\ Len(args) >= 3
    /\ args[1] = ScalarArg(360 * Micro)
    /\ heap[args[2].v] = ExampleLon
    => /\ ret.status = "returned"
       /\ heap[ret.value[1]] = ExampleLon \o <<180 * Micro>>
       /\ heap[ret.value[2]] = ExampleLat \o <<ExampleLat[1]>>

\* C11 is about a sample within tolerance of both seams.  The stitcher's
\* seams are -pi and +pi and its tolerance is numpy.isclose's 1e-8 + 1e-5 * pi,
\* so that no longitude is at both: the two index sets of a call never
\* share an index, and no sample is returned three times.
SeamsDisjoint ==
    ret.status = "returned" => SeamMinus \cap SeamPlus = {}

\* A call has returned duplicates made at both seams (of different samples).
SeamsBothUsed ==
    /\ ret.status = "returned"
    /\ SeamMinus # {}
    /\ SeamPlus # {}
    /\ Len(OutY) = Len(InY) + 2

(***************************************************************************)
(* transformers.py: spherical and geographic coordinates.  Angles are      *)
(* integers counting millionths of a radian or of a degree.  The model     *)
(* knows arccos and arctan2 on the points of the coordinate axes, where    *)
(* their values are 0, +-pi/2 and pi.                                      *)
(***************************************************************************)
\* The float nan, as a number no angle of the model comes near.
NaN == -(1000 * Micro)

\* a - b on floats
FSub(a, b) == IF a = NaN \/ b = NaN THEN NaN ELSE a - b

HalfPi == Pi \div 2

NumSign(a) == IF a.c > 0 \/ (a.c = 0 /\ a.f > 0) THEN 1
              ELSE IF a.c = 0 /\ a.f = 0 THEN 0 ELSE -1

NumAbs(a) == IF NumSign(a) < 0 THEN NumScale(-1, a) ELSE a

\* The float -0.0: zero with the sign bit set.  Sums and products of the
\* model's numbers give the zero without it.
NegZero == [c |-> 0, f |-> 0, neg |-> TRUE]

IsNegZero(a) == "neg" \in DOMAIN a

\* The sign bit of a float
SignBit(a) == NumSign(a) < 0 \/ IsNegZero(a)

\* At most one coordinate of p is not zero.
OnAxis(p) == Cardinality({k \in 1..3 : NumSign(p[k]) # 0}) <= 1

\* numpy.arctan2(y, x) where one of x and y is zero.  With y = +-0 the
\* result is +-0 for x of positive sign and +-pi for x of negative sign
\* (-0.0 included), its sign being that of y.
arctan2(y, x) ==
    IF NumSign(y) > 0 THEN HalfPi
    ELSE IF NumSign(y) < 0 THEN -HalfPi
    ELSE IF ~SignBit(x) THEN 0
    ELSE IF SignBit(y) THEN -Pi
    ELSE Pi

\* arccos(z / r) taking the inclination 0 where r = 0.
arccos_ratio_default(z, r) ==
    IF NumSign(r) = 0 THEN 0
    ELSE IF NumSign(z) > 0 THEN 0
    ELSE IF NumSign(z) = 0 THEN HalfPi
    ELSE Pi

\* numpy.arccos(z / r) for z in {-r, 0, r}; 0.0 / 0.0 is nan.
arccos_ratio(z, r) ==
    IF NumSign(r) = 0 THEN NaN
    ELSE IF NumSign(z) > 0 THEN 0
    ELSE IF NumSign(z) = 0 THEN HalfPi
    ELSE Pi

\* cartesian2spherical with the arguments of arctan2 exchanged.
cartesian2spherical_exchanged(x, y, z) ==
    LET r == NumAbs(NumAdd(NumAdd(x, y), z))
    IN  [r |-> r, theta |-> arccos_ratio(z, r), phi |-> arctan2(x, y)]

\* transformers.py:42-60, for a point on a coordinate axis, whose norm is
\* the size of its one coordinate.  At the origin z / r is 0.0 / 0.0, which
\* numpy evaluates to nan.
cartesian2spherical(x, y, z) ==
    LET r == NumAbs(NumAdd(NumAdd(x, y), z))
    IN  [r |-> r, theta |-> arccos_ratio(z, r), phi |-> arctan2(y, x)]

\* transformers.py:63-75
density2spherical(density_matrix) ==
    LET v == density2bloch(density_matrix)
    IN  cartesian2spherical(v[1], v[2], v[3])

\* floor(n * 10^k / d) for n >= 0 and d > 0, by long division.
RECURSIVE ScaleDiv(_, _, _)
ScaleDiv(n, d, k) ==
    IF k = 0 THEN n \div d
    ELSE (n \div d) * (10 ^ k) + ScaleDiv((n % d) * 10, d, k - 1)

\* a * 360 / (2 * numpy.pi), from millionths of a radian to millionths of a
\* degree.
ToDegrees(a) ==
    IF a = NaN THEN NaN
    ELSE IF a < 0 THEN -ScaleDiv((-a) * 180, Pi, 6)
    ELSE ScaleDiv(a * 180, Pi, 6)

\* spherical2geographic wrapping the longitudes >= 180 (not only > 180).
spherical2geographic_inclusive(theta, phi) ==
    LET lat == [i \in 1..Len(theta) |->
                    FSub(90 * Micro, ToDegrees(theta[i]))]
        lon0 == [i \in 1..Len(phi) |-> ToDegrees(phi[i])]
        lon == [i \in 1..Len(phi) |->
                    IF lon0[i] >= 180 * Micro THEN lon0[i] - 360 * Micro ELSE lon0[i]]
    IN  [lat |-> lat, lon |-> lon]

\* transformers.py:116-122, element-wise on two arrays.
spherical2geographic(theta, phi) ==
    LET lat == [i \in 1..Len(theta) |->
                    FSub(90 * Micro, ToDegrees(theta[i]))]
        lon0 == [i \in 1..Len(phi) |-> ToDegrees(phi[i])]
        lon == [i \in 1..Len(phi) |->
                    IF lon0[i] > 180 * Micro THEN lon0[i] - 360 * Micro ELSE lon0[i]]
    IN  [lat |-> lat, lon |-> lon]

\* numpy.cos and numpy.sin at the angles 0, +-pi/2 and +-pi, where they are
\* 0, 1 or -1 to within 2e-16.
Cos(a) == CASE a = 0 -> 1
            [] a \in {HalfPi, -HalfPi} -> 0
            [] a \in {Pi, -Pi} -> -1

Sin(a) == CASE a \in {0, Pi, -Pi} -> 0
            [] a = HalfPi -> 1
            [] a = -HalfPi -> -1

\* A coordinate that is nan
NaNNum == Num(NaN, 0)

\* transformers.py:78-93
spherical2cartesian(r, theta, phi) ==
    IF theta = NaN \/ phi = NaN
    THEN <<NaNNum, NaNNum, NaNNum>>
    ELSE <<NumScale(Cos(phi) * Sin(theta), r),
           NumScale(Sin(phi) * Sin(theta), r),
           NumScale(Cos(theta), r)>>

(***************************************************************************)
(* The spherical and geographic transforms as a state machine: an input is *)
(* drawn, then a function is applied to it.                                *)
(***************************************************************************)
\* The floats that are zero
Zeros == {Zero, NegZero}

\* Coordinates of the points on an axis: the multiples of 1/Den up to
\* 1 + 1/Den in size.
AxisCoords == {Num(c, 0) : c \in -(Den + 1)..(Den + 1)} \cup Zeros

\* Points with at most one coordinate that is not zero; each zero has
\* either sign.
AxisPoints ==
    {<<a, u, v>> : a \in AxisCoords, u \in Zeros, v \in Zeros}
        \cup {<<u, a, v>> : a \in AxisCoords, u \in Zeros, v \in Zeros}
        \cup {<<u, v, a>> : a \in AxisCoords, u \in Zeros, v \in Zeros}

\* The azimuth 3.2, slightly above pi
ExamplePhi == 32 * (Micro \div 10)

ThetaValues == {0, 1, HalfPi, Pi - 1, Pi}

PhiValues == {-Pi, 1 - Pi, -HalfPi, 0, HalfPi, Pi - 1, Pi, Pi + 1, ExamplePhi, 2 * Pi}

\* An inclination with an azimuth: every azimuth with the inclination 0,
\* every inclination with the azimuths 0 and 3.2 (the latitude is computed
\* from the inclination alone and the longitude from the azimuth alone).
AnglePairs ==
    {a \in ThetaValues \X PhiValues : a[1] = 0 \/ a[2] \in {0, ExamplePhi}}

\* Two arrays of angles of one length
AngleArrays ==
    UNION {{[theta |-> [i \in 1..n |-> a[i][1]], phi |-> [i \in 1..n |-> a[i][2]]] :
                a \in [1..n -> AnglePairs]} : n \in 1..MaxSamples}

\* Density matrices whose Bloch vector is on an axis, in the unit ball (at
\* an even number of coarse steps, so that the entries are exact).
AxisDensityMatrices ==
    {bloch_vector_to_density_matrix(p) :
        p \in {q \in AxisPoints : \A k \in 1..3 : /\ ~IsNegZero(q[k])
                                                   /\ NumAbs(q[k]).c <= Den
                                                   /\ q[k].c % 2 = 0}}

SphericalInputs ==
    {[kind |-> "point", val |-> p] : p \in AxisPoints}
        \cup {[kind |-> "angles", val |-> a] : a \in AngleArrays}
        \cup {[kind |-> "rho", val |-> m] : m \in AxisDensityMatrices}

SphInit ==
    /\ debug = TRUE
    /\ input \in SphericalInputs
    /\ result = NoCall
    /\ heap = <<>>
    /\ args = <<>>
    /\ ret = [status |-> "none", value |-> NoValue]
    /\ samples = <<>>
    /\ plot = NoPlot
    /\ calls = <<>>
    /\ NotImported

Call_cartesian2spherical ==
    /\ input.kind = "point"
    /\ result' = Outcome("cartesian2spherical",
                         Returned(cartesian2spherical(input.val[1], input.val[2],
                                                      input.val[3])))
    /\ UNCHANGED <<debug, input, svars, pvars, cvars>>

\* spherical2cartesian(*cartesian2spherical(x, y, z))
Call_spherical_round_trip ==
    /\ input.kind = "point"
    /\ LET s == cartesian2spherical(input.val[1], input.val[2], input.val[3])
       IN  result' = Outcome("spherical_round_trip",
                             Returned([spherical |-> s,
                                       cartesian |-> spherical2cartesian(s.r, s.theta,
                                                                         s.phi)]))
    /\ UNCHANGED <<debug, input, svars, pvars, cvars>>

Call_density2spherical ==
    /\ input.kind = "rho"
    /\ result' = Outcome("density2spherical", Returned(density2spherical(input.val)))
    /\ UNCHANGED <<debug, input, svars, pvars, cvars>>

Call_spherical2geographic ==
    /\ input.kind = "angles"
    /\ result' = Outcome("spherical2geographic",
                         Returned(spherical2geographic(input.val.theta, input.val.phi)))
    /\ UNCHANGED <<debug, input, svars, pvars, cvars>>

SphNext ==
    \/ Call_cartesian2spherical
    \/ Call_spherical_round_trip
    \/ Call_density2spherical
    \/ Call_spherical2geographic

SpecSpherical == SphInit /\ [][SphNext]_vars

(***************************************************************************)
(* Claims about the spherical and geographic transforms (checked under     *)
(* SpecSpherical).                                                         *)
(***************************************************************************)
\* C12: spherical2geographic returns, element by element,
\* lat = 90 - theta * 180 / pi and lon = phi * 180 / pi, less 360 when that
\* is above 180; so theta in [0, pi] gives lat in [-90, 90] (90 at
\* theta = 0), phi in (-pi, pi] gives lon in (-180, 180], and phi between pi
\* and 3.2 gives lon = phi * 180 / pi - 360, in (-180, 180] too.
C12_Geographic ==
    result.op = "spherical2geographic" =>
        LET theta == input.val.theta
            phi == input.val.phi
            lat == result.value.lat
            lon == result.value.lon
        IN  /\ Len(lat) = Len(theta) /\ Len(lon) = Len(phi)
            /\ \A i \in 1..Len(theta) :
                   /\ lat[i] = 90 * Micro - ToDegrees(theta[i])
                   /\ theta[i] = 0 => lat[i] = 90 * Micro
                   /\ (0 <= theta[i] /\ theta[i] <= Pi) =>
                          (-90 * Micro <= lat[i] /\ lat[i] <= 90 * Micro)
            /\ \A i \in 1..Len(phi) :
                   /\ lon[i] = IF ToDegrees(phi[i]) > 180 * Micro
                               THEN ToDegrees(phi[i]) - 360 * Micro
                               ELSE ToDegrees(phi[i])
                   /\ (-Pi < phi[i] /\ phi[i] <= Pi) =>
                          (-180 * Micro < lon[i] /\ lon[i] <= 180 * Micro)
                   /\ (Pi < phi[i] /\ phi[i] <= ExamplePhi) =>
                          /\ lon[i] = ToDegrees(phi[i]) - 360 * Micro
                          /\ -180 * Micro < lon[i] /\ lon[i] <= 180 * Micro

\* The function has been applied to the north pole at azimuth pi together
\* with a point of the equator at azimuth 3.2.
C12_Witness ==
    /\ result.op = "spherical2geographic"
    /\ input.val.theta = <<0, HalfPi>>
    /\ input.val.phi = <<Pi, ExamplePhi>>
    /\ result.value.lat = <<90 * Micro, 0>>
    /\ result.value.lon[1] = 180 * Micro
    /\ result.value.lon[2] < -176 * Micro

\* Equality of two floats within tolerance: the same number, whatever the
\* sign of a zero.
NumEq(a, b) == a.c = b.c /\ a.f = b.f

\* The norm of the axis point p is above 0 and at most 1.
InPuncturedBall(p) ==
    LET r == NumAbs(NumAdd(NumAdd(p[1], p[2]), p[3]))
    IN  NumSign(r) > 0 /\ r.c <= Den

\* C19 as claimed: for every point of norm in (0, 1],
\* spherical2cartesian(cartesian2spherical(x, y, z)) is (x, y, z), and the
\* spherical point between has r >= 0, theta in [0, pi], phi in (-pi, pi].
C19_AsClaimed ==
    (result.op = "spherical_round_trip" /\ InPuncturedBall(input.val)) =>
        LET s == result.value.spherical
            c == result.value.cartesian
        IN  /\ \A k \in 1..3 : NumEq(c[k], input.val[k])
            /\ NumSign(s.r) >= 0
            /\ 0 <= s.theta /\ s.theta <= Pi
            /\ -Pi < s.phi /\ s.phi <= Pi

\* C19 as amended: the same with phi in [-pi, pi], -pi included.
C19_Amended ==
    (result.op = "spherical_round_trip" /\ InPuncturedBall(input.val)) =>
        LET s == result.value.spherical
            c == result.value.cartesian
        IN  /\ \A k \in 1..3 : NumEq(c[k], input.val[k])
            /\ NumSign(s.r) >= 0
            /\ 0 <= s.theta /\ s.theta <= Pi
            /\ -Pi <= s.phi /\ s.phi <= Pi

\* The round trip has been made from the point (-1, -0.0, 0), whose azimuth
\* is -pi.
C19_Witness ==
    /\ result.op = "spherical_round_trip"
    /\ input.val = <<Num(-Den, 0), NegZero, Zero>>
    /\ result.value.spherical.phi = -Pi
    /\ result.value.spherical.theta = HalfPi
    /\ result.value.cartesian = <<Num(-Den, 0), Zero, Zero>>

(***************************************************************************)
(* flatmap.py, flatmap_cartopy.py, concise.py: the plotting functions, up  *)
(* to the arrays they hand to the renderer.                                *)
(***************************************************************************)
\* qiskit's state_fidelity(rho1, rho2), the squared nuclear norm of
\* sqrt(rho1) sqrt(rho2).  For a pure state rho1 it is Tr(rho1 rho2), which
\* is (1 + r.s)/2 for the Bloch vectors r of rho1 and s of rho2; r is a unit
\* vector of a coordinate axis here.  For the maximally mixed rho1 it is
\* (1 + sqrt(1 - |s|^2))/2: 1 for s = 0 and 1/2 for a unit s, the two kinds
\* of rho2 given with such a rho1.
state_fidelity(rho1, rho2) ==
    LET r == density2bloch(rho1)
        t == density2bloch(rho2)
        dot == NumAdd(NumAdd(NumScale(r[1].c \div Den, t[1]),
                             NumScale(r[2].c \div Den, t[2])),
                      NumScale(r[3].c \div Den, t[3]))
    IN  IF \A k \in 1..3 : NumSign(r[k]) = 0 /\ NumSign(t[k]) = 0
        THEN One
        ELSE NumHalf(NumAdd(One, dot))

\* flatmap.py:17-20
compute_infidelity(ideal, approximated) ==
    NumSub(One, state_fidelity(ideal, approximated))

RECURSIVE NumSum(_)
NumSum(A) == IF A = <<>> THEN Zero ELSE NumAdd(A[1], NumSum(Tail(A)))

\* numpy.mean(Z), kept as the sum and the number of values averaged.
mean(Z) == [sum |-> NumSum(Z), count |-> Len(Z)]

\* Wrap without its second statement: D[D < -half] += 2 * half only.
Wrap_up(d, half) ==
    IF d = NaN THEN NaN
    ELSE IF d < -half THEN d + 2 * half ELSE d

\* D[D < -half] += 2 * half; D[D > half] -= 2 * half, on one element.
Wrap(d, half) ==
    LET w == IF d < -half THEN d + 2 * half ELSE d
    IN  IF d = NaN THEN NaN
        ELSE IF w > half THEN w - 2 * half ELSE w

\* One call of the stitcher from a plotting function, with what the model
\* records of it: the call site, the unit of the site's longitude array,
\* the caller's names of the arguments in their positions, and how the call
\* ended.
StitchAt(h, site, unit, names, a) ==
    LET r == call_account_for_periodicity(h, a)
    IN  [heap |-> r.heap, status |-> r.status, value |-> r.value,
         call |-> [site |-> site, unit |-> unit, names |-> names,
                   args |-> a, status |-> r.status]]

Refs(from, n) == [k \in 1..n |-> ArrayArg(from + k)]

\* [cartesian2density(*p) for p in ideal_points_cartesian]
IdealDensities(smp, dbg) ==
    [i \in 1..Len(smp) |->
        cartesian2density(smp[i].ideal[1], smp[i].ideal[2], smp[i].ideal[3], dbg)]

IdealSpherical(smp) ==
    [i \in 1..Len(smp) |->
        cartesian2spherical(smp[i].ideal[1], smp[i].ideal[2], smp[i].ideal[3])]

ObtainedSpherical(smp) == [i \in 1..Len(smp) |-> density2spherical(smp[i].rho)]

\* How a plotting function ended.  axes tells how the function that has
\* the choice got its axes (set by plot_over_projected_bloch_sphere_2d).
Ended(func, status, h, cs, locals) ==
    [func |-> func, status |-> status, heap |-> h, calls |-> cs, locals |-> locals,
     axes |-> NoValue]

Thetas(spherical) == [i \in 1..Len(spherical) |-> spherical[i].theta]

Phis(spherical) == [i \in 1..Len(spherical) |-> spherical[i].phi]

\* [compute_z_data(ideal, approximated) for ideal, approximated in zip(...)]
ZData(ideal_dm, smp) ==
    [i \in 1..Len(smp) |-> compute_infidelity(ideal_dm[i].value, smp[i].rho)]

AnyRaised(ideal_dm) == \E i \in 1..Len(ideal_dm) : ideal_dm[i].status # "returned"

\* FlatStitched averaging the Z that the stitcher returned.
FlatStitched_after(func, st, average_value) ==
    IF st.status # "returned"
    THEN Ended(func, st.status, st.heap, <<st.call>>,
               [X |-> 1, Y |-> 2, Z |-> 3, average_value |-> average_value])
    ELSE Ended(func, "returned", st.heap, <<st.call>>,
               [X |-> st.value[1], Y |-> st.value[2], Z |-> st.value[3],
                average_value |-> mean(st.heap[st.value[3]])])

\* flatmap.py:94-132: X, Y, Z = account_for_periodicity(X, Y, Z), st being
\* the call made.
FlatStitched(func, st, average_value) ==
    IF st.status # "returned"
    THEN Ended(func, st.status, st.heap, <<st.call>>,
               [X |-> 1, Y |-> 2, Z |-> 3, average_value |-> average_value])
    ELSE Ended(func, "returned", st.heap, <<st.call>>,
               [X |-> st.value[1], Y |-> st.value[2], Z |-> st.value[3],
                average_value |-> average_value])

\* flatmap.py:80-95, on the arrays XYZ = <<X, Y, Z>>
FlatArrays(func, XYZ) ==
    FlatStitched(func,
                 StitchAt(XYZ, "flatmap.py:95", "rad", <<"X", "Y", "Z">>, Refs(0, 3)),
                 mean(XYZ[3]))

\* flatmap.py:73-92
FlatTransformed(func, smp, ideal_points_spherical, ideal_points_density_matrices) ==
    IF AnyRaised(ideal_points_density_matrices)
    THEN Ended(func, "AssertionError", <<>>, <<>>, <<>>)
    ELSE FlatArrays(func, <<Thetas(ideal_points_spherical), Phis(ideal_points_spherical),
                            ZData(ideal_points_density_matrices, smp)>>)

\* flatmap.py:38-132
plot_over_bloch_sphere_2d(smp, dbg) ==
    FlatTransformed("plot_over_bloch_sphere_2d", smp, IdealSpherical(smp),
                    IdealDensities(smp, dbg))

\* ArrowSecond keeping the V it passed instead of the V returned.
ArrowSecond_keepV(func, base, k, c1, c2) ==
    IF c2.status # "returned"
    THEN Ended(func, c2.status, c2.heap, base.calls \o <<c1.call, c2.call>>,
               [X |-> k + 1, Y |-> k + 2, U |-> c1.value[3], V |-> k + 4])
    ELSE Ended(func, "returned", c2.heap, base.calls \o <<c1.call, c2.call>>,
               [X |-> c2.value[1], Y |-> c2.value[2], U |-> c1.value[3],
                V |-> k + 4])

\* flatmap.py:203: X, Y, V = account_for_periodicity(X, Y, V), c2 being the
\* call made and c1 the one before it.
ArrowSecond(func, base, k, c1, c2) ==
    IF c2.status # "returned"
    THEN Ended(func, c2.status, c2.heap, base.calls \o <<c1.call, c2.call>>,
               [X |-> k + 1, Y |-> k + 2, U |-> c1.value[3], V |-> k + 4])
    ELSE Ended(func, "returned", c2.heap, base.calls \o <<c1.call, c2.call>>,
               [X |-> c2.value[1], Y |-> c2.value[2], U |-> c1.value[3],
                V |-> c2.value[3]])

\* flatmap.py:202: _, _, U = account_for_periodicity(X, Y, U), c1 being the
\* call made.
ArrowFirst(func, base, k, c1) ==
    IF c1.status # "returned"
    THEN Ended(func, c1.status, c1.heap, base.calls \o <<c1.call>>,
               [X |-> k + 1, Y |-> k + 2, U |-> k + 3, V |-> k + 4])
    ELSE ArrowSecond(func, base, k, c1,
                     StitchAt(c1.heap, "flatmap.py:203", "rad", <<"X", "Y", "V">>,
                              <<ArrayArg(k + 1), ArrayArg(k + 2), ArrayArg(k + 4)>>))

\* flatmap.py:188-203, on the arrays XYUV = <<X, Y, U, V>>
ArrowArrays(func, base, k, XYUV) ==
    ArrowFirst(func, base, k,
               StitchAt(base.heap \o XYUV, "flatmap.py:202", "rad", <<"X", "Y", "U">>,
                        <<ArrayArg(k + 1), ArrayArg(k + 2), ArrayArg(k + 3)>>))

\* flatmap.py:180-200
ArrowTransformed(func, base, obtained_points_spherical, ideal_points_spherical) ==
    LET n == Len(ideal_points_spherical)
        X == Thetas(ideal_points_spherical)
        Y == Phis(ideal_points_spherical)
        U == [i \in 1..n |->
                 Wrap(FSub(obtained_points_spherical[i].theta,
                           ideal_points_spherical[i].theta), Pi)]
        V == [i \in 1..n |->
                 Wrap(FSub(obtained_points_spherical[i].phi,
                           ideal_points_spherical[i].phi), Pi)]
    IN  IF base.status # "returned"
        THEN [base EXCEPT !.func = func]
        ELSE ArrowArrays(func, base, Len(base.heap), <<X, Y, U, V>>)

\* flatmap.py:135-219
plot_bloch_vector_displacement_arrow_field_2d(smp, dbg) ==
    ArrowTransformed("plot_bloch_vector_displacement_arrow_field_2d",
                     plot_over_bloch_sphere_2d(smp, dbg),
                     ObtainedSpherical(smp), IdealSpherical(smp))

\* spherical2geographic on the two columns of an array of spherical points
Geographic(spherical) == spherical2geographic(Thetas(spherical), Phis(spherical))

\* flatmap_cartopy.py:99-115, concise.py:46-62: in the heap,
\* <<lon_ideal, lat_ideal, Z, U, V>>.
GeographicDisplaced(ideal, obtained, Z) ==
    LET n == Len(Z)
        U == [i \in 1..n |-> FSub(obtained.lat[i], ideal.lat[i])]
        V == [i \in 1..n |-> Wrap(FSub(obtained.lon[i], ideal.lon[i]), 180 * Micro)]
    IN  <<ideal.lon, ideal.lat, Z, U, V>>

\* The arrays the two geographic plots compute before they stitch
\* (flatmap_cartopy.py:83-115, concise.py:30-62).
GeographicArrays(smp, ideal_dm) ==
    GeographicDisplaced(Geographic(IdealSpherical(smp)),
                        Geographic(ObtainedSpherical(smp)),
                        ZData(ideal_dm, smp))

GeographicNames == <<"lon_ideal", "lat_ideal", "Z", "U", "V">>

\* lon_ideal, lat_ideal, (Z, U, V) = <the three arrays returned>: the third
\* must hold exactly three items.
UnpackGeographic(func, st) ==
    IF st.status # "returned"
    THEN Ended(func, st.status, st.heap, <<st.call>>,
               [lon_ideal |-> 1, lat_ideal |-> 2, Z |-> 3, U |-> 4, V |-> 5])
    ELSE IF Len(st.heap[st.value[3]]) # 3
    THEN Ended(func, "ValueError", st.heap, <<st.call>>,
               [lon_ideal |-> 1, lat_ideal |-> 2, Z |-> 3, U |-> 4, V |-> 5])
    ELSE Ended(func, "returned", st.heap, <<st.call>>,
               [lon_ideal |-> st.value[1], lat_ideal |-> st.value[2],
                ZUV |-> st.value[3]])

\* flatmap_cartopy.py:89-119
ProjectedTransformed(func, smp, ideal_dm) ==
    IF AnyRaised(ideal_dm)
    THEN Ended(func, "AssertionError", <<>>, <<>>, <<>>)
    ELSE UnpackGeographic(func,
             StitchAt(GeographicArrays(smp, ideal_dm), "flatmap_cartopy.py:117", "deg",
                      GeographicNames, Refs(0, 5)))

\* flatmap_cartopy.py:82-159: the function once it has its axes.
projected_body(smp, dbg) ==
    ProjectedTransformed("plot_over_projected_bloch_sphere_2d", smp,
                         IdealDensities(smp, dbg))

\* The axes chosen from the arguments given, and what was done for them:
\* "created" by plt.subplots, or "replaced" by fig.delaxes(ax) and
\* fig.add_subplot at ax_index.
AxesChosen(made, fig, ax, indices, ax_index) ==
    [made |-> made, fig |-> fig, ax |-> ax,
     figure_subplots_indices |-> indices, ax_index |-> ax_index]

\* plot_over_projected_bloch_sphere_2d drawing on the axes given where it
\* cannot replace them.
plot_over_projected_bloch_sphere_2d_lenient(body, fig, ax, indices, ax_index) ==
    IF fig = "None" \/ ax = "None"
    THEN [body EXCEPT !.axes = AxesChosen("created", fig, ax, indices, ax_index)]
    ELSE IF ax # "GeoAxes" /\ indices # "None" /\ ax_index # "None"
    THEN [body EXCEPT !.axes = AxesChosen("replaced", fig, ax, indices, ax_index)]
    ELSE [body EXCEPT !.axes = AxesChosen("given", fig, ax, indices, ax_index)]

\* flatmap_cartopy.py:20-81: the choice of the axes, then the body (given
\* already evaluated).  fig and ax are "None" or the kind of object given;
\* indices and ax_index are "None" or "given".
plot_over_projected_bloch_sphere_2d(body, fig, ax, indices, ax_index) ==
    IF fig = "None" \/ ax = "None"
    THEN [body EXCEPT !.axes = AxesChosen("created", fig, ax, indices, ax_index)]
    ELSE IF ax # "GeoAxes" /\ indices # "None" /\ ax_index # "None"
    THEN [body EXCEPT !.axes = AxesChosen("replaced", fig, ax, indices, ax_index)]
    ELSE [Ended("plot_over_projected_bloch_sphere_2d", "NotImplementedError",
                <<>>, <<>>, <<>>)
              EXCEPT !.axes = AxesChosen("none", fig, ax, indices, ax_index)]

\* concise.py:36-66
ConciseTransformed(func, smp, ideal_dm) ==
    IF AnyRaised(ideal_dm)
    THEN Ended(func, "AssertionError", <<>>, <<>>, <<>>)
    ELSE UnpackGeographic(func,
             StitchAt(GeographicArrays(smp, ideal_dm), "concise.py:64", "deg",
                      <<"360">> \o GeographicNames,
                      <<ScalarArg(360 * Micro)>> \o Refs(0, 5)))

\* concise.py:15-87
plot_bloch_concise_vector_displacement_arrow_field_2d(smp, dbg) ==
    ConciseTransformed("plot_bloch_concise_vector_displacement_arrow_field_2d", smp,
                       IdealDensities(smp, dbg))

(***************************************************************************)
(* Inputs of the plotting functions: ideal points are the six pure states  *)
(* on the coordinate axes; each comes with the exact density matrix of a   *)
(* reconstructed point on an axis.                                         *)
(***************************************************************************)
IdealPoints ==
    {<<Num(s * Den, 0), Zero, Zero>> : s \in {-1, 1}}
        \cup {<<Zero, Num(s * Den, 0), Zero>> : s \in {-1, 1}}
        \cup {<<Zero, Zero, Num(s * Den, 0)>> : s \in {-1, 1}}

\* The reconstructions of the ideal point p: p itself, p at half the
\* radius, the opposite point, and p with its coordinates rotated.
Reconstructions(p) ==
    {p,
     <<NumHalf(p[1]), NumHalf(p[2]), NumHalf(p[3])>>,
     <<NumScale(-1, p[1]), NumScale(-1, p[2]), NumScale(-1, p[3])>>,
     <<p[3], p[1], p[2]>>}

SampleSet ==
    UNION {{[ideal |-> p, rho |-> bloch_vector_to_density_matrix(q)] :
                q \in Reconstructions(p)} : p \in IdealPoints}

Samples == UNION {[1..n -> SampleSet] : n \in 1..MaxSamples}

PInit ==
    /\ debug \in BOOLEAN
    /\ input = [kind |-> "none", val |-> NoValue]
    /\ result = NoCall
    /\ heap = <<>>
    /\ args = <<>>
    /\ ret = [status |-> "none", value |-> NoValue]
    /\ samples \in Samples
    /\ plot = NoPlot
    /\ calls = <<>>
    /\ NotImported

\* The plotting function has run: the arrays it made, the calls of the
\* stitcher it made and how it ended.
Ran(r) ==
    /\ plot.func = "none"
    /\ plot' = [func |-> r.func, status |-> r.status, locals |-> r.locals,
                axes |-> r.axes]
    /\ heap' = r.heap
    /\ calls' = r.calls
    /\ UNCHANGED <<debug, input, result, args, ret, samples, cvars>>

PlotFlat == Ran(plot_over_bloch_sphere_2d(samples, debug))

PlotArrowField == Ran(plot_bloch_vector_displacement_arrow_field_2d(samples, debug))

PlotProjected ==
    LET body == projected_body(samples, debug)
    IN  \E fig \in {"None", "Figure"}, ax \in {"None", "Axes", "GeoAxes"},
           indices \in {"None", "given"}, ax_index \in {"None", "given"} :
            Ran(plot_over_projected_bloch_sphere_2d(body, fig, ax, indices, ax_index))

PlotConcise == Ran(plot_bloch_concise_vector_displacement_arrow_field_2d(samples, debug))

PNext ==
    \/ PlotFlat
    \/ PlotArrowField
    \/ PlotProjected
    \/ PlotConcise

Spec == PInit /\ [][PNext]_vars


(***************************************************************************)
(* Claims about the calls of the stitcher made by the plotting functions.  *)
(***************************************************************************)
\* The period of longitudes in a unit: 2 pi radians, 360 degrees.
PeriodOfUnit(unit) == IF unit = "rad" THEN 2 * Pi ELSE 360 * Micro

\* C6: every call of the stitcher is stitched with the period of the unit
\* of its own longitude array: 2 pi at the flat map's calls, 360 at the
\* geographic map's and the concise plot's.  The stitcher of flatmap.py
\* compares with +-pi and shifts by 2 pi whatever its caller.
C6_PeriodMatchesUnit ==
    \A k \in 1..Len(calls) :
        /\ calls[k].status = "returned"
        /\ PeriodOfUnit(calls[k].unit) = 2 * Pi

\* C7: every call of the stitcher made by a plotting function passes
\* arguments the stitcher accepts and unpacks what it returns, so that no
\* plotting function ends on the shape of the arguments or of the result.
C7_CallsAccepted ==
    /\ \A k \in 1..Len(calls) :
           calls[k].status \notin {"TypeError", "ValueError"}
    /\ plot.status \notin {"TypeError", "ValueError"}

\* C8: at every call of the stitcher, the array in the position the
\* stitcher tests against the seam and shifts (its second parameter) is the
\* caller's longitude array (Y, holding phi, in flatmap.py; lon_ideal in
\* the geographic plots), and the array in the first position, copied
\* unchanged, is the caller's latitude array (X, holding theta; lat_ideal).
C8_LongitudeIsTested ==
    \A k \in 1..Len(calls) :
        /\ calls[k].names[2] \in {"Y", "lon_ideal"}
        /\ calls[k].names[1] \in {"X", "lat_ideal"}

(***************************************************************************)
(* backends.py: the chip layouts and their registry.                       *)
(***************************************************************************)
\* Most qubits declared, and most positions given, when a layout is
\* constructed with arguments of the caller's (the repository's own layouts
\* apart).
MaxQubits == 2

\* QubitPlacement.__post_init__ raising only when positions are missing
\* (qubit_number > len(positions)).
post_init_missing(self) ==
    IF self.qubit_number > Len(self.positions)
    THEN Raised("RuntimeError")
    ELSE Returned(self)

\* backends.py:16-21, QubitPlacement.__post_init__
post_init(self) ==
    IF ~(self.qubit_number = Len(self.positions))
    THEN Raised("RuntimeError")
    ELSE Returned(self)

\* backends.py:10-21: the constructor the dataclass generates, which sets
\* the three fields and calls __post_init__.  type is the name of the class
\* constructed.
QubitPlacement(type, qubit_number, positions, supported_processor_types) ==
    post_init([type |-> type, qubit_number |-> qubit_number,
               positions |-> positions,
               supported_processor_types |-> supported_processor_types])

\* [(i, y) for i in range(a, b)]
Row(a, b, y) == [i \in 1..(b - a) |-> <<a + i - 1, y>>]

\* Shape65Qubits without the last position of its table.
Shape65Qubits_short ==
    QubitPlacement("Shape65Qubits", 65,
        Row(0, 10, 0) \o <<<<0, 1>>, <<4, 1>>, <<8, 1>>>>
            \o Row(0, 11, 2) \o <<<<2, 3>>, <<6, 3>>, <<10, 3>>>>
            \o Row(0, 11, 4) \o <<<<0, 5>>, <<4, 5>>, <<8, 5>>>>
            \o Row(0, 11, 6) \o <<<<2, 7>>, <<6, 7>>, <<10, 7>>>>
            \o Row(1, 10, 8),
        <<"Hummingbird r2">>)

\* backends.py:40-46.  Each class below is what its __init__() does.
OneQubit ==
    QubitPlacement("OneQubit", 1, <<<<0, 0>>>>, <<"Canary r1.2">>)

\* backends.py:49-55
TShape5Qubits ==
    QubitPlacement("TShape5Qubits", 5,
        <<<<0, 0>>, <<1, 0>>, <<2, 0>>, <<1, 1>>, <<1, 2>>>>,
        <<"Falcon r4T">>)

\* backends.py:58-64
LineShape5Qubits ==
    QubitPlacement("LineShape5Qubits", 5,
        <<<<0, 0>>, <<1, 0>>, <<2, 0>>, <<3, 0>>, <<4, 0>>>>,
        <<"Falcon r4L", "Falcon r5.11L">>)

\* HShape7Qubits with its last qubit in the cell of the one before.
HShape7Qubits_overlap ==
    QubitPlacement("HShape7Qubits", 7,
        <<<<0, 0>>, <<1, 0>>, <<2, 0>>, <<1, 1>>, <<0, 2>>, <<1, 2>>, <<1, 2>>>>,
        <<"Falcon r5.11H">>)

\* backends.py:67-73
HShape7Qubits ==
    QubitPlacement("HShape7Qubits", 7,
        <<<<0, 0>>, <<1, 0>>, <<2, 0>>, <<1, 1>>, <<0, 2>>, <<1, 2>>, <<2, 2>>>>,
        <<"Falcon r5.11H">>)

\* backends.py:76-99
Shape16Qubits ==
    QubitPlacement("Shape16Qubits", 16,
        <<<<0, 1>>, <<1, 1>>, <<1, 2>>, <<1, 3>>, <<2, 1>>, <<2, 3>>, <<3, 0>>,
          <<3, 1>>, <<3, 3>>, <<3, 4>>, <<4, 1>>, <<4, 3>>, <<5, 1>>, <<5, 2>>,
          <<5, 3>>, <<6, 1>>>>,
        <<"Falcon r4P">>)

\* backends.py:102-141
Shape27Qubits ==
    QubitPlacement("Shape27Qubits", 27,
        <<<<0, 1>>, <<1, 1>>, <<1, 2>>, <<1, 3>>, <<2, 1>>, <<2, 3>>, <<3, 0>>,
          <<3, 1>>, <<3, 3>>, <<3, 4>>, <<4, 1>>, <<4, 3>>, <<5, 1>>, <<5, 2>>,
          <<5, 3>>, <<6, 1>>, <<6, 3>>, <<7, 0>>, <<7, 1>>, <<7, 3>>, <<7, 4>>,
          <<8, 1>>, <<8, 3>>, <<9, 1>>, <<9, 2>>, <<9, 3>>, <<10, 3>>>>,
        <<"Falcon r5.11", "Falcon r4", "Falcon r5.1", "Falcon r8">>)

\* backends.py:144-160
Shape65Qubits ==
    QubitPlacement("Shape65Qubits", 65,
        Row(0, 10, 0) \o <<<<0, 1>>, <<4, 1>>, <<8, 1>>>>
            \o Row(0, 11, 2) \o <<<<2, 3>>, <<6, 3>>, <<10, 3>>>>
            \o Row(0, 11, 4) \o <<<<0, 5>>, <<4, 5>>, <<8, 5>>>>
            \o Row(0, 11, 6) \o <<<<2, 7>>, <<6, 7>>, <<10, 7>>>>
            \o Row(1, 11, 8),
        <<"Hummingbird r2">>)

\* backends.py:163-185
Shape127Qubits ==
    QubitPlacement("Shape127Qubits", 127,
        Row(0, 14, 0) \o <<<<0, 1>>, <<4, 1>>, <<8, 1>>, <<12, 1>>>>
            \o Row(0, 15, 2) \o <<<<2, 3>>, <<6, 3>>, <<10, 3>>, <<14, 3>>>>
            \o Row(0, 15, 4)
            \o <<<<0, 5>>, <<4, 5>>, <<8, 5>>, <<12, 5>>>>
            \o Row(0, 15, 6) \o <<<<2, 7>>, <<6, 7>>, <<10, 7>>, <<14, 7>>>>
            \o Row(0, 15, 8)
            \o <<<<0, 9>>, <<4, 9>>, <<8, 9>>, <<12, 9>>>>
            \o Row(0, 15, 10) \o <<<<2, 11>>, <<6, 11>>, <<10, 11>>, <<14, 11>>>>
            \o Row(1, 15, 12),
        <<"Eagle r1">>)

\* backends.py:189-198: the classes the registry is built from, each as the
\* outcome of calling it.
PlacementClasses ==
    <<OneQubit, TShape5Qubits, LineShape5Qubits, HShape7Qubits, Shape16Qubits,
      Shape27Qubits, Shape65Qubits, Shape127Qubits>>

\* The dict d with d[key] = value
DictSet(d, key, value) ==
    [k \in DOMAIN d \cup {key} |-> IF k = key THEN value ELSE d[k]]

\* backends.py:200-210: the inner loop, from the k-th processor type of the
\* instance on.  made is the outcome of placement_class(), called again for
\* every entry; P is the dict and W the warnings so far.
RECURSIVE RegisterTypes(_, _, _, _)
RegisterTypes(P, W, made, k) ==
    IF k > Len(made.value.supported_processor_types)
    THEN [status |-> "running", placements |-> P, warnings |-> W]
    ELSE LET processor_type == made.value.supported_processor_types[k]
             W2 == IF processor_type \in DOMAIN P
                   THEN Append(W, [processor_type |-> processor_type,
                                   classes |-> <<made.value.type,
                                                 P[processor_type].type>>])
                   ELSE W
         IN  RegisterTypes(DictSet(P, processor_type, made.value), W2, made, k + 1)

\* backends.py:188-210: the loop over the classes, from the i-th on.  A
\* constructor that raises ends the import of the module.
RECURSIVE LoadPlacements(_, _, _, _)
LoadPlacements(classes, P, W, i) ==
    IF i > Len(classes)
    THEN [status |-> "imported", placements |-> P, warnings |-> W]
    ELSE IF classes[i].status # "returned"
    THEN [status |-> classes[i].status, placements |-> P, warnings |-> W]
    ELSE LET r == RegisterTypes(P, W, classes[i], 1)
         IN  LoadPlacements(classes, r.placements, r.warnings, i + 1)

\* _PLACEMENTS.get(processor_type, OneQubit()): a default for an unknown
\* processor type.
get_qubit_placement_default(P, processor_type) ==
    [placements |-> P, status |-> "returned",
     value |-> IF processor_type \in DOMAIN P THEN P[processor_type]
               ELSE OneQubit.value]

\* _PLACEMENTS.setdefault(processor_type, OneQubit()): an unknown processor
\* type is registered by the lookup.
get_qubit_placement_setdefault(P, processor_type) ==
    IF processor_type \in DOMAIN P
    THEN [placements |-> P, status |-> "returned", value |-> P[processor_type]]
    ELSE [placements |-> DictSet(P, processor_type, OneQubit.value),
          status |-> "returned", value |-> OneQubit.value]

\* backends.py:213-214: the dict's subscript raises KeyError on a missing
\* key.
get_qubit_placement(P, processor_type) ==
    IF processor_type \in DOMAIN P
    THEN [placements |-> P, status |-> "returned", value |-> P[processor_type]]
    ELSE [placements |-> P, status |-> "KeyError", value |-> NoValue]

\* max(S) of a non-empty set of integers
Max(S) == CHOOSE m \in S : \A n \in S : n <= m

\* backends.py:31-33
max_x(self) == Max({self.positions[k][1] : k \in 1..Len(self.positions)})

\* backends.py:35-37
max_y(self) == Max({self.positions[k][2] : k \in 1..Len(self.positions)})

(***************************************************************************)
(* chip.py: the view of a whole chip.                                      *)
(***************************************************************************)
\* chip.py:29, 38: what plt.subplots(rows, cols) returns (squeeze is on) and
\* what subscripting it as axes[y, x] does: a single Axes is not
\* subscriptable, a row or a column of them takes one index only.
AxesSubscript(rows, cols) ==
    IF rows = 1 /\ cols = 1 THEN "TypeError"
    ELSE IF rows = 1 \/ cols = 1 THEN "IndexError"
    ELSE "returned"

\* The cells (x, y) of the grid of a layout: all_axes of chip.py:42-44
AllAxes(placement) ==
    {<<i, j>> : i \in 0..max_x(placement), j \in 0..max_y(placement)}

Cells(placement) == {placement.positions[k] : k \in 1..Len(placement.positions)}

\* What plot_whole_chip_view has done when it ends with the status given:
\* the events in their order (the figure made, then for each qubit the
\* subscript axes[y, x] and the call of the renderer), and the cells whose
\* axes it has removed at the end.
ChipDone(status, events, removed) ==
    [status |-> status, events |-> events, removed |-> removed]

\* chip.py:34-41 with the renderer's outcome drawn: the call made for the
\* qubit of index k - 1, from its own list density_matrices[k - 1].
Rendered(placement, cols, k, drawn) ==
    [ev |-> "render", qubit |-> k - 1, data |-> k - 1,
     row |-> placement.positions[k][2], col |-> placement.positions[k][1],
     ax_index |-> placement.positions[k][2] * cols + placement.positions[k][1] + 1,
     status |-> drawn.status]

\* chip.py:38: the argument ax=axes[y, x] of the renderer's call
Subscripted(placement, k, status) ==
    [ev |-> "subscript", qubit |-> k - 1,
     row |-> placement.positions[k][2], col |-> placement.positions[k][1],
     status |-> status]

\* chip.py:31-46: the loop over the qubits, from the k-th on, then the
\* removal of the unused axes; the function ends where a subscript or a
\* plot raises.
RECURSIVE PlotQubits(_, _, _, _, _, _)
PlotQubits(placement, density_matrices, dbg, fig_size, k, events) ==
    IF k > Len(placement.positions)
    THEN ChipDone("returned", events, AllAxes(placement) \ Cells(placement))
    ELSE LET sub == AxesSubscript(fig_size[1], fig_size[2])
         IN  IF sub # "returned"
             THEN ChipDone(sub, Append(events, Subscripted(placement, k, sub)), {})
             ELSE LET drawn == plot_over_projected_bloch_sphere_2d(
                                   projected_body(density_matrices[k], dbg),
                                   "Figure", "Axes", "given", "given")
                      done == events \o <<Subscripted(placement, k, sub),
                                          Rendered(placement, fig_size[2], k, drawn)>>
                  IN  IF drawn.status # "returned"
                      THEN ChipDone(drawn.status, done, {})
                      ELSE PlotQubits(placement, density_matrices, dbg, fig_size,
                                      k + 1, done)

\* plt.subplots(*fig_size)
Subplots(fig_size) == [ev |-> "subplots", rows |-> fig_size[1], cols |-> fig_size[2]]

\* ChipView making its figure before it compares the number of sample
\* lists with the layout's qubit_number.
ChipView_late(placement, density_matrices, dbg) ==
    LET fig_size == <<max_y(placement) + 1, max_x(placement) + 1>>
    IN  IF Len(density_matrices) # placement.qubit_number
        THEN ChipDone("RuntimeError", <<Subplots(fig_size)>>, {})
        ELSE PlotQubits(placement, density_matrices, dbg, fig_size, 1,
                        <<Subplots(fig_size)>>)

\* chip.py:22-46, placement being the layout found
ChipView(placement, density_matrices, dbg) ==
    LET fig_size == <<max_y(placement) + 1, max_x(placement) + 1>>
    IN  IF Len(density_matrices) # placement.qubit_number
        THEN ChipDone("RuntimeError", <<>>, {})
        ELSE PlotQubits(placement, density_matrices, dbg, fig_size, 1,
                        <<Subplots(fig_size)>>)

\* chip.py:10-46: found is the outcome of get_qubit_placement(processor_type)
plot_whole_chip_view(found, density_matrices, dbg) ==
    LET done == IF found.status # "returned"
                THEN ChipDone(found.status, <<>>, {})
                ELSE ChipView(found.value, density_matrices, dbg)
    IN  [placements |-> found.placements,
         status |-> done.status,
         value |-> [events |-> done.events, removed |-> done.removed]]

(***************************************************************************)
(* The registry as a state machine: sqmap.backends is imported, which      *)
(* builds the dict; then layouts are constructed, looked up, read and      *)
(* plotted, in any order and any number of times.                          *)
(***************************************************************************)
\* The processor types asked for: those of the repository's layouts, and two
\* that no layout claims.
ProcessorTypes ==
    UNION {{PlacementClasses[i].value.supported_processor_types[k] :
               k \in 1..Len(PlacementClasses[i].value.supported_processor_types)} :
              i \in 1..Len(PlacementClasses)}
        \cup {"Falcon r9", "falcon r4"}

\* The arguments (qubit_number, number of positions) of a construction.
ConstructArgs ==
    {<<q, n>> : q \in 0..MaxQubits, n \in 0..MaxQubits} \cup {<<5, 4>>}

\* The samples given for each qubit of a chip
ChipSamples ==
    {<<[ideal |-> p, rho |-> bloch_vector_to_density_matrix(p)]>> :
        p \in {<<Zero, Zero, One>>, <<Num(-Den, 0), Zero, Zero>>}}

CInit ==
    /\ debug \in BOOLEAN
    /\ input = [kind |-> "none", val |-> NoValue]
    /\ result = NoCall
    /\ heap = <<>>
    /\ args = <<>>
    /\ ret = [status |-> "none", value |-> NoValue]
    /\ samples = <<>>
    /\ plot = NoPlot
    /\ calls = <<>>
    /\ NotImported

\* import sqmap.backends (backends.py:188-210)
Import ==
    /\ loader = "not imported"
    /\ LET r == LoadPlacements(PlacementClasses, <<>>, <<>>, 1)
       IN  /\ loader' = r.status
           /\ PLACEMENTS' = r.placements
           /\ emitted' = r.warnings
    /\ UNCHANGED <<chipcall, tvars, svars, pvars>>

\* QubitPlacement(qubit_number, positions, supported_processor_types)
Construct ==
    /\ loader = "imported"
    /\ \E a \in ConstructArgs :
           LET made == QubitPlacement("QubitPlacement", a[1], Row(0, a[2], 0), <<>>)
           IN  chipcall' = [op |-> "QubitPlacement",
                            arg |-> [qubit_number |-> a[1], positions |-> Row(0, a[2], 0)],
                            status |-> made.status, value |-> made.value]
    /\ UNCHANGED <<loader, PLACEMENTS, emitted, tvars, svars, pvars>>

\* placement_class(), for a class of the repository
ConstructSubclass ==
    /\ loader = "imported"
    /\ \E i \in 1..Len(PlacementClasses) :
           chipcall' = [op |-> "placement_class", arg |-> i,
                        status |-> PlacementClasses[i].status,
                        value |-> PlacementClasses[i].value]
    /\ UNCHANGED <<loader, PLACEMENTS, emitted, tvars, svars, pvars>>

Call_get_qubit_placement ==
    /\ loader = "imported"
    /\ \E processor_type \in ProcessorTypes :
           LET r == get_qubit_placement(PLACEMENTS, processor_type)
           IN  /\ PLACEMENTS' = r.placements
               /\ chipcall' = [op |-> "get_qubit_placement", arg |-> processor_type,
                               status |-> r.status, value |-> r.value]
    /\ UNCHANGED <<loader, emitted, tvars, svars, pvars>>

\* get_qubit_placement(processor_type).max_x, .max_y
ReadProperty ==
    /\ loader = "imported"
    /\ \E processor_type \in DOMAIN PLACEMENTS, property \in {"max_x", "max_y"} :
           LET r == get_qubit_placement(PLACEMENTS, processor_type)
           IN  /\ PLACEMENTS' = r.placements
               /\ chipcall' = [op |-> property, arg |-> processor_type,
                               status |-> "returned",
                               value |-> IF property = "max_x" THEN max_x(r.value)
                                         ELSE max_y(r.value)]
    /\ UNCHANGED <<loader, emitted, tvars, svars, pvars>>

\* plot_whole_chip_view(density_matrices, processor_type), with data for n
\* qubits: as many as the layout has, or one fewer.
Call_plot_whole_chip_view ==
    /\ loader = "imported"
    /\ \E processor_type \in ProcessorTypes, each \in ChipSamples, fewer \in {0, 1} :
           LET found == get_qubit_placement(PLACEMENTS, processor_type)
               n == IF found.status = "returned"
                    THEN found.value.qubit_number - fewer ELSE 1
               r == plot_whole_chip_view(found, [k \in 1..n |-> each], debug)
           IN  /\ PLACEMENTS' = r.placements
               /\ chipcall' = [op |-> "plot_whole_chip_view",
                               arg |-> [processor_type |-> processor_type, qubits |-> n],
                               status |-> r.status, value |-> r.value]
    /\ UNCHANGED <<loader, emitted, tvars, svars, pvars>>

CNext ==
    \/ Import
    \/ Construct
    \/ ConstructSubclass
    \/ Call_get_qubit_placement
    \/ ReadProperty
    \/ Call_plot_whole_chip_view

SpecChip == CInit /\ [][CNext]_vars

(***************************************************************************)
(* Claims about the layouts and their registry (checked under SpecChip).   *)
(***************************************************************************)
\* C13: constructing a layout whose qubit_number differs from the number
\* of its positions (5 qubits with 4 positions, say) raises at once and
\* gives no object; every object a constructor gives, and every object of
\* the registry, has as many positions as its qubit_number.
C13_ConstructionChecked ==
    /\ (chipcall.op = "QubitPlacement"
            /\ chipcall.arg.qubit_number # Len(chipcall.arg.positions)) =>
           (chipcall.status = "RuntimeError" /\ chipcall.value = NoValue)
    /\ (chipcall.op \in {"QubitPlacement", "placement_class"}
            /\ chipcall.status = "returned") =>
           chipcall.value.qubit_number = Len(chipcall.value.positions)
    /\ \A t \in DOMAIN PLACEMENTS :
           PLACEMENTS[t].qubit_number = Len(PLACEMENTS[t].positions)

\* A layout of 5 qubits has been asked for with 4 positions, and refused.
C13_Witness ==
    /\ chipcall.op = "QubitPlacement"
    /\ chipcall.arg.qubit_number = 5
    /\ Len(chipcall.arg.positions) = 4
    /\ chipcall.status = "RuntimeError"

\* The qubit counts the registry has once built, by processor type.
RegisteredQubits ==
    [t \in {"Canary r1.2", "Falcon r4T", "Falcon r4L", "Falcon r5.11L",
            "Falcon r5.11H", "Falcon r4P", "Falcon r5.11", "Falcon r4",
            "Falcon r5.1", "Falcon r8", "Hummingbird r2", "Eagle r1"} |->
        CASE t = "Canary r1.2" -> 1
          [] t \in {"Falcon r4T", "Falcon r4L", "Falcon r5.11L"} -> 5
          [] t = "Falcon r5.11H" -> 7
          [] t = "Falcon r4P" -> 16
          [] t = "Hummingbird r2" -> 65
          [] t = "Eagle r1" -> 127
          [] OTHER -> 27]

\* C14: building the registry from the eight layout classes raises nothing:
\* each layout's table has as many positions as the layout declares
\* qubits (1, 5, 5, 7, 16, 27, 65, 127), and once the module is imported
\* every processor type of the registry maps to such a layout.
C14_RegistryBuilt ==
    /\ loader \in {"not imported", "imported"}
    /\ \A i \in 1..Len(PlacementClasses) : PlacementClasses[i].status = "returned"
    /\ loader = "imported" =>
           /\ DOMAIN PLACEMENTS = DOMAIN RegisteredQubits
           /\ \A t \in DOMAIN PLACEMENTS :
                  /\ PLACEMENTS[t].qubit_number = RegisteredQubits[t]
                  /\ Len(PLACEMENTS[t].positions) = RegisteredQubits[t]
                  /\ \E k \in 1..Len(PLACEMENTS[t].supported_processor_types) :
                         PLACEMENTS[t].supported_processor_types[k] = t

\* The module is imported and the registry holds the 65- and the 127-qubit
\* layouts.
C14_Witness ==
    /\ loader = "imported"
    /\ "Hummingbird r2" \in DOMAIN PLACEMENTS
    /\ "Eagle r1" \in DOMAIN PLACEMENTS
    /\ Len(PLACEMENTS["Eagle r1"].positions) = 127

\* C15: get_qubit_placement called with a processor type that is not
\* registered raises (KeyError); it returns no layout, default or other,
\* and the registry has no entry for that processor type afterwards.
C15_UnknownTypeRaises ==
    (chipcall.op = "get_qubit_placement"
        /\ chipcall.arg \notin DOMAIN RegisteredQubits) =>
        /\ chipcall.status = "KeyError"
        /\ chipcall.value = NoValue
        /\ chipcall.arg \notin DOMAIN PLACEMENTS

\* An unregistered processor type has been looked up, and refused.
C15_Witness ==
    /\ chipcall.op = "get_qubit_placement"
    /\ chipcall.arg = "Falcon r9"
    /\ chipcall.status = "KeyError"
    /\ loader = "imported"

\* C16 is about a processor type claimed by two layouts.  The twelve
\* processor types of the eight layouts are all different, so that the
\* import of the module never finds one registered already: no warning is
\* ever emitted.
NoWarningEmitted == emitted = <<>>

\* C17: once the module is imported, no lookup, chip view, property read or
\* construction changes the registry: no entry is added, removed or bound
\* to another layout, and no layout's fields change.
C17_RegistryReadOnly ==
    [][loader = "imported" => PLACEMENTS' = PLACEMENTS]_vars

\* After the import, a chip view has been asked for a registered processor
\* type with data for each of its qubits, and the registry is as built.
C17_Witness ==
    /\ loader = "imported"
    /\ chipcall.op = "plot_whole_chip_view"
    /\ chipcall.arg.processor_type = "Falcon r4"
    /\ chipcall.arg.qubits = 27
    /\ chipcall.status # "none"
    /\ DOMAIN PLACEMENTS = DOMAIN RegisteredQubits

(***************************************************************************)
(* The plotting functions on the example list of three ideal points with   *)
(* their exact density matrices, and on lists holding the origin as ideal  *)
(* point or the maximally mixed state as reconstruction.                   *)
(***************************************************************************)
Origin == <<Zero, Zero, Zero>>

\* The density matrix of the origin: I / 2
MaximallyMixed == bloch_vector_to_density_matrix(Origin)

PlusX == <<One, Zero, Zero>>

MinusX == <<Num(-Den, 0), Zero, Zero>>

PlusY == <<Zero, One, Zero>>

PlusZ == <<Zero, Zero, One>>

\* An ideal point with its exact density matrix
Exact(p) == [ideal |-> p, rho |-> bloch_vector_to_density_matrix(p)]

\* ideal_points = [(0,0,1), (1,0,0), (0,1,0)] and their density matrices
ExampleSamples == <<Exact(PlusZ), Exact(PlusX), Exact(PlusY)>>

\* Samples with a zero-norm ideal point, with a maximally mixed
\* reconstruction, and exact ones (MinusX lies on the seam phi = pi).
DegenerateSampleSet ==
    {Exact(Origin), [ideal |-> Origin, rho |-> bloch_vector_to_density_matrix(PlusZ)]}
        \cup {[ideal |-> p, rho |-> MaximallyMixed] : p \in {PlusX, MinusX}}
        \cup {Exact(PlusZ), Exact(MinusX)}

MinusY == <<Zero, Num(-Den, 0), Zero>>

MinusZ == <<Zero, Zero, Num(-Den, 0)>>

\* (-1, -0.0, 0), whose azimuth is -pi
MinusXBelow == <<Num(-Den, 0), NegZero, Zero>>

\* Samples whose reconstruction is another point of the sphere than the
\* ideal one: a quarter turn or a full turn away in azimuth, in either
\* direction, or at the opposite pole.
DisplacedSampleSet ==
    {[ideal |-> MinusY, rho |-> bloch_vector_to_density_matrix(MinusX)],
     [ideal |-> MinusX, rho |-> bloch_vector_to_density_matrix(MinusY)],
     [ideal |-> MinusXBelow, rho |-> bloch_vector_to_density_matrix(MinusX)],
     [ideal |-> PlusZ, rho |-> bloch_vector_to_density_matrix(MinusZ)]}

ScenarioSamples ==
    {ExampleSamples}
        \cup UNION {[1..n -> DegenerateSampleSet \cup DisplacedSampleSet] :
                       n \in 1..MaxSamples}

ScInit ==
    /\ debug \in BOOLEAN
    /\ input = [kind |-> "none", val |-> NoValue]
    /\ result = NoCall
    /\ heap = <<>>
    /\ args = <<>>
    /\ ret = [status |-> "none", value |-> NoValue]
    /\ samples \in ScenarioSamples
    /\ plot = NoPlot
    /\ calls = <<>>
    /\ NotImported

SpecScenarios == ScInit /\ [][PNext]_vars

IsOrigin(p) == \A k \in 1..3 : NumSign(p[k]) = 0

\* The payload array Z of a plot that has returned
PayloadZ ==
    IF "Z" \in DOMAIN plot.locals THEN heap[plot.locals.Z]
    ELSE heap[heap[plot.locals.ZUV][1]]

\* C18: on the example list, the flat map and the geographic map both run
\* the transforms and the stitcher to the end, and every value of the
\* payload array they then hold (one per sample, and one per duplicate made
\* at the seam) is the infidelity 0.  The geographic map is taken with the
\* axes it accepts, so that it reaches its transforms.
C18_ExampleCompletes ==
    (/\ samples = ExampleSamples
     /\ plot.func \in {"plot_over_bloch_sphere_2d",
                       "plot_over_projected_bloch_sphere_2d"}
     /\ plot.status # "NotImplementedError")
        => /\ plot.status = "returned"
           /\ Len(PayloadZ) >= Len(samples)
           /\ \A i \in 1..Len(PayloadZ) : PayloadZ[i] = Zero

\* The flat map alone does so on the example list.
FlatExampleCompletes ==
    (samples = ExampleSamples /\ plot.func = "plot_over_bloch_sphere_2d")
        => /\ plot.status = "returned"
           /\ PayloadZ = <<Zero, Zero, Zero>>

FlatExampleRan ==
    /\ samples = ExampleSamples
    /\ plot.func = "plot_over_bloch_sphere_2d"
    /\ plot.status = "returned"

\* The arrays a plotting function has made from the samples, before any
\* stitching: the inclinations (or latitudes) of the ideal points, and the
\* displacements in inclination (or latitude) where it computes them.
\* The flat map's first call gets X in the heap's first place; the arrow
\* field makes X and U after the flat map has stitched its own arrays; the
\* geographic plots keep lat_ideal second and U fourth.
MadeInclinations ==
    IF plot.func = "plot_over_bloch_sphere_2d" THEN heap[calls[1].args[1].v]
    ELSE IF plot.func = "plot_bloch_vector_displacement_arrow_field_2d"
    THEN heap[calls[2].args[1].v]
    ELSE heap[2]

MadeDisplacements ==
    IF plot.func = "plot_bloch_vector_displacement_arrow_field_2d"
    THEN heap[calls[2].args[3].v]
    ELSE heap[4]

ComputesDisplacements ==
    /\ plot.func # "plot_over_bloch_sphere_2d"
    /\ plot.status # "NotImplementedError"

\* C20: a zero-norm ideal point and a maximally mixed reconstruction are
\* converted like any other.  No plotting function rejects them (none ends
\* on an error that it would not end on without them), the arrays made
\* from the samples keep one entry per sample, the inclination of a
\* zero-norm ideal point is nan (never an angle), and so is the
\* displacement computed from it or from a maximally mixed reconstruction.
C20_OriginNotValidated ==
    plot.func # "none" =>
        /\ plot.status \in
               IF plot.func \in {"plot_over_bloch_sphere_2d",
                                 "plot_bloch_vector_displacement_arrow_field_2d"}
               THEN {"returned"}
               ELSE {"TypeError", "NotImplementedError"}
        /\ plot.status # "NotImplementedError" =>
               /\ Len(MadeInclinations) = Len(samples)
               /\ \A i \in 1..Len(samples) :
                      (MadeInclinations[i] = NaN) <=> IsOrigin(samples[i].ideal)
        /\ ComputesDisplacements =>
               /\ Len(MadeDisplacements) = Len(samples)
               /\ \A i \in 1..Len(samples) :
                      (MadeDisplacements[i] = NaN) <=>
                          \/ IsOrigin(samples[i].ideal)
                          \/ IsOrigin(density2bloch(samples[i].rho))

\* The arrow field has been computed from a zero-norm ideal point followed
\* by the maximally mixed reconstruction of (1, 0, 0).
C20_Witness ==
    /\ plot.func = "plot_bloch_vector_displacement_arrow_field_2d"
    /\ plot.status = "returned"
    /\ Len(samples) = 2
    /\ samples[1].ideal = Origin
    /\ samples[2] = [ideal |-> PlusX, rho |-> MaximallyMixed]
    /\ MadeInclinations = <<NaN, HalfPi>>
    /\ MadeDisplacements = <<NaN, NaN>>

(***************************************************************************)
(* Claims about the view of a whole chip (checked under SpecChip).         *)
(***************************************************************************)
\* The last call is plot_whole_chip_view for a registered processor type
\* with as many sample lists as the layout has qubits.
ChipViewWellCalled ==
    /\ chipcall.op = "plot_whole_chip_view"
    /\ chipcall.arg.processor_type \in DOMAIN PLACEMENTS
    /\ chipcall.arg.qubits = PLACEMENTS[chipcall.arg.processor_type].qubit_number

\* The events of one kind of the last call of plot_whole_chip_view
EventsOf(kind) == SelectSeq(chipcall.value.events, LAMBDA e : e.ev = kind)

\* The 1-based row-major subplot index of the k-th position of a layout
SubplotIndex(placement, k) ==
    placement.positions[k][2] * (max_x(placement) + 1) + placement.positions[k][1] + 1

\* C21: a well-formed call of plot_whole_chip_view returns having called
\* the renderer once for each qubit, in the order of the qubits: for qubit
\* q at (x, y), from the sample list of index q, in row y and column x,
\* with the subplot index y * (max_x + 1) + x + 1, which lies in
\* 1..(max_y + 1) * (max_x + 1) and differs from that of every other
\* qubit; the axes it has then removed are those of the cells holding no
\* qubit.
C21_EveryQubitRendered ==
    ChipViewWellCalled =>
        LET placement == PLACEMENTS[chipcall.arg.processor_type]
            renders == EventsOf("render")
        IN  /\ chipcall.status = "returned"
            /\ Len(renders) = placement.qubit_number
            /\ \A k \in 1..Len(renders) :
                   /\ renders[k].qubit = k - 1
                   /\ renders[k].data = k - 1
                   /\ renders[k].row = placement.positions[k][2]
                   /\ renders[k].col = placement.positions[k][1]
                   /\ renders[k].ax_index = SubplotIndex(placement, k)
                   /\ renders[k].ax_index \in
                          1..((max_y(placement) + 1) * (max_x(placement) + 1))
                   /\ renders[k].status = "returned"
                   /\ \A j \in 1..Len(renders) :
                          j # k => renders[j].ax_index # renders[k].ax_index
            /\ chipcall.value.removed = AllAxes(placement) \ Cells(placement)

\* In every layout of the registry the subplot indices of the positions
\* are in the grid and differ from one another.
SubplotIndicesDistinct ==
    \A t \in DOMAIN PLACEMENTS :
        \A k \in 1..Len(PLACEMENTS[t].positions) :
            /\ SubplotIndex(PLACEMENTS[t], k) \in
                   1..((max_y(PLACEMENTS[t]) + 1) * (max_x(PLACEMENTS[t]) + 1))
            /\ \A j \in 1..Len(PLACEMENTS[t].positions) :
                   j # k => SubplotIndex(PLACEMENTS[t], j) # SubplotIndex(PLACEMENTS[t], k)

\* C24: plot_whole_chip_view ends on RuntimeError exactly when the
\* processor type is registered and the number of sample lists differs
\* from the layout's qubit_number, and on the lookup's KeyError when the
\* processor type is not registered; in both cases it has made no figure
\* and called no renderer.
C24_CountCheckedFirst ==
    chipcall.op = "plot_whole_chip_view" =>
        /\ chipcall.arg.processor_type \notin DOMAIN PLACEMENTS =>
               /\ chipcall.status = "KeyError"
               /\ chipcall.value.events = <<>>
        /\ (/\ chipcall.arg.processor_type \in DOMAIN PLACEMENTS
            /\ chipcall.arg.qubits #
                   PLACEMENTS[chipcall.arg.processor_type].qubit_number) =>
               /\ chipcall.status = "RuntimeError"
               /\ chipcall.value.events = <<>>
        /\ chipcall.status = "RuntimeError" => ~ChipViewWellCalled

\* The view of a 27-qubit chip has been asked for with 26 sample lists.
C24_Witness ==
    /\ chipcall.op = "plot_whole_chip_view"
    /\ chipcall.arg.processor_type = "Falcon r4"
    /\ chipcall.arg.qubits = 26
    /\ chipcall.status = "RuntimeError"
    /\ chipcall.value.events = <<>>

\* C25: in a well-formed call of plot_whole_chip_view, for any layout of
\* the registry, every subscript axes[y, x] of what plt.subplots returned
\* gives an axes.
C25_SubscriptWorks ==
    ChipViewWellCalled =>
        /\ EventsOf("subscript") # <<>>
        /\ \A k \in 1..Len(EventsOf("subscript")) :
               EventsOf("subscript")[k].status = "returned"

\* C30: the positions of every layout of the registry differ from one
\* another: the cells occupied are as many as qubit_number, and no two
\* indices of the layout name the same cell.
C30_PositionsDistinct ==
    \A t \in DOMAIN PLACEMENTS :
        /\ Cardinality(Cells(PLACEMENTS[t])) = PLACEMENTS[t].qubit_number
        /\ \A j, k \in 1..Len(PLACEMENTS[t].positions) :
               j # k => PLACEMENTS[t].positions[j] # PLACEMENTS[t].positions[k]

\* The 127-qubit layout has been looked up in the registry: it occupies
\* 127 cells.
C30_Witness ==
    /\ loader = "imported"
    /\ chipcall.op = "get_qubit_placement"
    /\ chipcall.arg = "Eagle r1"
    /\ chipcall.status = "returned"
    /\ Cardinality(Cells(chipcall.value)) = 127

(***************************************************************************)
(* Claims about the arrays the plotting functions make (checked under      *)
(* SpecScenarios).                                                         *)
(***************************************************************************)
\* C22: plot_over_projected_bloch_sphere_2d creates a figure and axes when
\* fig or ax is None; replaces ax by a projected subplot at ax_index when
\* fig and ax are given, ax is not a GeoAxes and both
\* figure_subplots_indices and ax_index are given; and in every other case
\* ends on NotImplementedError having transformed no point and made no
\* array.  Only in that case does it end on NotImplementedError.
C22_AxesSelection ==
    plot.func = "plot_over_projected_bloch_sphere_2d" =>
        LET a == plot.axes
            fresh == a.fig = "None" \/ a.ax = "None"
            replace == /\ ~fresh
                       /\ a.ax # "GeoAxes"
                       /\ a.figure_subplots_indices # "None"
                       /\ a.ax_index # "None"
        IN  /\ a.made = IF fresh THEN "created"
                        ELSE IF replace THEN "replaced" ELSE "none"
            /\ a.made = "none" <=> plot.status = "NotImplementedError"
            /\ a.made = "none" => heap = <<>> /\ calls = <<>> /\ plot.locals = <<>>

\* The function has been given a figure and a GeoAxes with both index
\* arguments, and has refused them.
C22_Witness ==
    /\ plot.func = "plot_over_projected_bloch_sphere_2d"
    /\ plot.axes.fig = "Figure"
    /\ plot.axes.ax = "GeoAxes"
    /\ plot.axes.figure_subplots_indices = "given"
    /\ plot.axes.ax_index = "given"
    /\ plot.status = "NotImplementedError"
    /\ heap = <<>>

\* The displacement arrays U and V a plotting function has made, after
\* their wrapping and before any stitching.  The arrow field of the flat
\* map passes U to its first stitcher call and V to its second (the flat
\* map it starts with has made a call before); the geographic plots keep
\* U fourth and V fifth.
WrappedU == MadeDisplacements

WrappedV ==
    IF plot.func = "plot_bloch_vector_displacement_arrow_field_2d"
    THEN heap[calls[3].args[3].v]
    ELSE heap[5]

\* The differences obtained - ideal before wrapping: of the inclinations
\* and azimuths in the flat map, of the longitudes in the geographic plots.
RawU == [i \in 1..Len(samples) |->
            FSub(ObtainedSpherical(samples)[i].theta, IdealSpherical(samples)[i].theta)]

RawV ==
    IF plot.func = "plot_bloch_vector_displacement_arrow_field_2d"
    THEN [i \in 1..Len(samples) |->
             FSub(ObtainedSpherical(samples)[i].phi, IdealSpherical(samples)[i].phi)]
    ELSE [i \in 1..Len(samples) |->
             FSub(Geographic(ObtainedSpherical(samples)).lon[i],
                  Geographic(IdealSpherical(samples)).lon[i])]

HalfPeriod ==
    IF plot.func = "plot_bloch_vector_displacement_arrow_field_2d"
    THEN Pi ELSE 180 * Micro

\* C23: where the angles of the ideal and of the reconstructed point are
\* defined, the displacements a plot has computed are within half a period
\* of zero after wrapping (U and V within [-pi, pi] in the flat map, V
\* within [-180, 180] in the geographic and the concise plot), and differ
\* from the raw difference by nothing or by one period exactly.
C23_DisplacementsWrapped ==
    (plot.func # "none" /\ ComputesDisplacements) =>
        \A i \in 1..Len(samples) :
            RawU[i] # NaN =>
                /\ -HalfPeriod <= WrappedV[i] /\ WrappedV[i] <= HalfPeriod
                /\ WrappedV[i] - RawV[i] \in {0, 2 * HalfPeriod, -2 * HalfPeriod}
                /\ plot.func = "plot_bloch_vector_displacement_arrow_field_2d" =>
                       /\ -Pi <= WrappedU[i] /\ WrappedU[i] <= Pi
                       /\ WrappedU[i] - RawU[i] \in {0, 2 * Pi, -2 * Pi}

\* The arrow field has been computed for the ideal point (0, -1, 0)
\* reconstructed at (-1, 0, 0), three quarters of a turn further in
\* azimuth, followed by (-1, -0.0, 0) reconstructed a full turn further:
\* V is a quarter turn back, then nothing.
C23_Witness ==
    /\ plot.func = "plot_bloch_vector_displacement_arrow_field_2d"
    /\ plot.status = "returned"
    /\ Len(samples) = 2
    /\ samples[1].ideal = MinusY
    /\ samples[2].ideal = MinusXBelow
    /\ RawV = <<Pi + HalfPi, 2 * Pi>>
    /\ WrappedV = <<-HalfPi, 0>>

(***************************************************************************)
(* The round trip from a point (checked under SpecTransform).              *)
(***************************************************************************)
\* C26: for every point p that cartesian2density accepts (norm below
\* 1 + 1e-10 where the check is compiled, any point where it is not),
\* density2bloch(cartesian2density(*p)) is p: each component comes back
\* equal, with its sign.
C26_CartesianRoundTrip ==
    result.op = "cartesian_round_trip" =>
        /\ result.status = "returned" <=> (~debug \/ NormBelow(input.val, EpsFine))
        /\ result.status = "returned" =>
               \A k \in 1..3 :
                   /\ result.value[k] = input.val[k]
                   /\ NumSign(result.value[k]) = NumSign(input.val[k])

\* The round trip has been made, with the check compiled, on a point with
\* a negative y and an x that is not on the coarse grid.
C26_Witness ==
    /\ result.op = "cartesian_round_trip"
    /\ result.status = "returned"
    /\ debug
    /\ input.val[2].c < 0
    /\ input.val[1].f # 0
    /\ result.value = input.val

(***************************************************************************)
(* Claims about the stitching done by the flat map and its arrow field     *)
(* (checked under SpecScenarios).                                          *)
(***************************************************************************)
ArrowFieldReturned ==
    /\ plot.func = "plot_bloch_vector_displacement_arrow_field_2d"
    /\ plot.status = "returned"

\* The sample each index of a stitched array refers to, the azimuths of
\* the samples being Y0: the samples in their order, then those at the
\* seam -pi, then those at the seam +pi.
SampleOf(Y0) ==
    [i \in 1..Len(Y0) |-> i] \o CloseIndices(Y0, -Pi) \o CloseIndices(Y0, Pi)

\* C27: the two stitcher calls of the arrow field (for U, then for V) are
\* given the same two arrays X and Y, which hold one entry per sample, and
\* the arrays U and V as wrapped, one entry per sample; the X, Y, U and V
\* the function then holds have one length, and each index of the four
\* refers to one sample: X, U and V hold that sample's values, Y its
\* azimuth or its azimuth moved by a period.
C27_ArrowArraysAligned ==
    ArrowFieldReturned =>
        LET X0 == heap[calls[2].args[1].v]
            Y0 == heap[calls[2].args[2].v]
            U0 == heap[calls[2].args[3].v]
            V0 == heap[calls[3].args[3].v]
            X == heap[plot.locals.X]
            Y == heap[plot.locals.Y]
            U == heap[plot.locals.U]
            V == heap[plot.locals.V]
            of == SampleOf(Y0)
        IN  /\ calls[3].args[1] = calls[2].args[1]
            /\ calls[3].args[2] = calls[2].args[2]
            /\ calls[3].args[3] # calls[2].args[3]
            /\ Len(X0) = Len(samples) /\ Len(Y0) = Len(samples)
            /\ Len(U0) = Len(samples) /\ Len(V0) = Len(samples)
            /\ Len(X) = Len(of) /\ Len(Y) = Len(of)
            /\ Len(U) = Len(of) /\ Len(V) = Len(of)
            /\ \A i \in 1..Len(of) :
                   /\ X[i] = X0[of[i]]
                   /\ U[i] = U0[of[i]]
                   /\ V[i] = V0[of[i]]
                   /\ Y[i] - Y0[of[i]] \in {0, 2 * Pi, -2 * Pi}

\* The arrow field has been computed for two samples, the first at the
\* seam -pi and the second at the seam +pi: its four arrays have four
\* entries.
C27_Witness ==
    /\ ArrowFieldReturned
    /\ Len(samples) = 2
    /\ samples[1].ideal = MinusXBelow
    /\ samples[2].ideal = MinusX
    /\ heap[plot.locals.Y] = <<-Pi, Pi, Pi, -Pi>>
    /\ Len(heap[plot.locals.U]) = 4
    /\ Len(heap[plot.locals.V]) = 4

\* The infidelity of each sample, in the order of the samples
SampleInfidelities ==
    [i \in 1..Len(samples) |->
        compute_infidelity(bloch_vector_to_density_matrix(samples[i].ideal),
                           samples[i].rho)]

\* C28: the average that plot_over_bloch_sphere_2d draws on the colour
\* bar is the mean of one value per sample given, the sample's own: the
\* copies the stitcher adds to Z at the seam are not in it.
C28_AverageBeforeStitching ==
    (plot.func = "plot_over_bloch_sphere_2d" /\ plot.status = "returned") =>
        /\ plot.locals.average_value.count = Len(samples)
        /\ plot.locals.average_value.sum = NumSum(SampleInfidelities)
        /\ Len(heap[plot.locals.Z]) >= Len(samples)

\* The flat map has been drawn for two samples, the first of infidelity
\* 1/2 on the seam: Z holds three values, the average is over two.
C28_Witness ==
    /\ plot.func = "plot_over_bloch_sphere_2d"
    /\ plot.status = "returned"
    /\ samples = <<[ideal |-> MinusX, rho |-> MaximallyMixed], Exact(PlusZ)>>
    /\ heap[plot.locals.Z] = <<NumHalf(One), Zero, NumHalf(One)>>
    /\ plot.locals.average_value = [sum |-> NumHalf(One), count |-> 2]

(***************************************************************************)
(* _cli/precision_evolution.py: get_data, which reads the data files in    *)
(* their order and keeps the metrics of each (method, shots) pair.         *)
(***************************************************************************)
\* d[key] = value on a dict d that may hold the key already
DictPut(d, key, value) ==
    [k \in DOMAIN d \cup {key} |-> IF k = key THEN value ELSE d[k]]

\* precision_evolution.py:30-33: the metrics of the samples of the qubit of
\* index 0, the metric being the infidelity; a failed assert of
\* cartesian2density ends the comprehension.
FileMetrics(data, dbg) ==
    LET smp == data.density_matrices[1]
        ideal == IdealDensities(smp, dbg)
    IN  IF AnyRaised(ideal) THEN Raised("AssertionError")
        ELSE Returned(ZData(ideal, smp))

\* StoreMetrics leaving in place the metrics a pair already has.
StoreMetrics_keepfirst(metric_values, method, shots, metrics) ==
    LET known == IF method \in DOMAIN metric_values
                 THEN metric_values[method] ELSE <<>>
    IN  IF shots \in DOMAIN known THEN metric_values
        ELSE DictPut(metric_values, method, DictPut(known, shots, metrics))

\* precision_evolution.py:27-28, 34: the dict of the method is created if
\* missing, then metric_values[method][shots] = metrics.
StoreMetrics(metric_values, method, shots, metrics) ==
    LET known == IF method \in DOMAIN metric_values
                 THEN metric_values[method] ELSE <<>>
    IN  DictPut(metric_values, method, DictPut(known, shots, metrics))

\* What get_data has done: its dict, and the lines it has printed.
DataDone(status, metric_values, printed) ==
    [status |-> status,
     value |-> [metric_values |-> metric_values, printed |-> printed]]

\* precision_evolution.py:19-37: the loop from the i-th file on, then the
\* line printed when the files name several bases.
RECURSIVE GetDataLoop(_, _, _, _, _, _)
GetDataLoop(datafiles, i, metric_values, basis_names, printed, dbg) ==
    IF i > Len(datafiles)
    THEN DataDone("returned", metric_values,
                  IF Cardinality(basis_names) > 1
                  THEN Append(printed, "Found several basis")
                  ELSE printed)
    ELSE LET data == datafiles[i]
             warned == IF data.qubit_number # 1
                       THEN Append(printed, "Warning: found a file with")
                       ELSE printed
             metrics == FileMetrics(data, dbg)
         IN  IF metrics.status # "returned"
             THEN DataDone(metrics.status, metric_values, warned)
             ELSE GetDataLoop(datafiles, i + 1,
                              StoreMetrics(metric_values, data.post_processing_method,
                                           data.shots, metrics.value),
                              basis_names \cup {data.basis_name}, warned, dbg)

\* precision_evolution.py:13-37
get_data(datafiles, dbg) == GetDataLoop(datafiles, 1, <<>>, {}, <<>>, dbg)

\* The samples of a qubit in a data file: reconstructed exactly, or as the
\* maximally mixed state.
QubitData == {<<Exact(PlusZ)>>, <<[ideal |-> PlusZ, rho |-> MaximallyMixed]>>}

\* The samples of the second qubit of a two-qubit file: reconstructed at
\* the opposite pole.
OtherQubitData == <<[ideal |-> PlusZ, rho |-> bloch_vector_to_density_matrix(MinusZ)]>>

\* The contents of the data files
DataFiles ==
    {[qubit_number |-> q, basis_name |-> b, post_processing_method |-> m,
      shots |-> s,
      density_matrices |-> IF q = 1 THEN <<d>> ELSE <<d, OtherQubitData>>] :
        q \in {1, 2}, b \in {"pauli", "tetrahedral"}, m \in {"lin", "mle"},
        s \in {100, 1000}, d \in QubitData}

GInit ==
    /\ debug \in BOOLEAN
    /\ input \in {[kind |-> "datafiles", val |-> f] :
                     f \in UNION {[1..n -> DataFiles] : n \in 0..MaxFiles}}
    /\ result = NoCall
    /\ heap = <<>>
    /\ args = <<>>
    /\ ret = [status |-> "none", value |-> NoValue]
    /\ samples = <<>>
    /\ plot = NoPlot
    /\ calls = <<>>
    /\ NotImported

Call_get_data ==
    /\ input.kind = "datafiles"
    /\ result = NoCall
    /\ result' = Outcome("get_data", get_data(input.val, debug))
    /\ UNCHANGED <<debug, input, svars, pvars, cvars>>

SpecData == GInit /\ [][Call_get_data]_vars

\* The index of the last file of the sequence with the method and shots
\* given (0 if there is none).
LastFile(files, m, s) ==
    Max({0} \cup {i \in 1..Len(files) :
                     files[i].post_processing_method = m /\ files[i].shots = s})

\* C29: get_data returns a dict whose methods are those of the files and
\* whose shot counts, under a method, are those of the files with that
\* method; the entry of a method and a shot count holds the metrics of the
\* last file with that pair, computed from the samples of its qubit of
\* index 0 whatever its qubit_number; a file whose qubit_number is not 1
\* only adds a warning line.
C29_LastFileWins ==
    result.op = "get_data" =>
        LET files == input.val
            mv == result.value.metric_values
        IN  /\ result.status = "returned"
            /\ DOMAIN mv = {files[i].post_processing_method : i \in 1..Len(files)}
            /\ \A m \in DOMAIN mv :
                   /\ DOMAIN mv[m] =
                          {files[i].shots :
                              i \in {j \in 1..Len(files) :
                                        files[j].post_processing_method = m}}
                   /\ \A s \in DOMAIN mv[m] :
                          mv[m][s] =
                              [k \in 1..Len(files[LastFile(files, m, s)].density_matrices[1]) |->
                                  compute_infidelity(
                                      bloch_vector_to_density_matrix(
                                          files[LastFile(files, m, s)].density_matrices[1][k].ideal),
                                      files[LastFile(files, m, s)].density_matrices[1][k].rho)]
            /\ Len(SelectSeq(result.value.printed,
                             LAMBDA l : l = "Warning: found a file with")) =
                   Cardinality({i \in 1..Len(files) : files[i].qubit_number # 1})

\* get_data has read two files of one method and shot count: a one-qubit
\* file reconstructed exactly, then a two-qubit file whose first qubit is
\* reconstructed as the maximally mixed state; the entry holds the
\* infidelity 1/2 of the latter.
C29_Witness ==
    /\ result.op = "get_data"
    /\ Len(input.val) = 2
    /\ input.val[1].post_processing_method = "mle"
    /\ input.val[2].post_processing_method = "mle"
    /\ input.val[1].shots = 100
    /\ input.val[2].shots = 100
    /\ input.val[1].qubit_number = 1
    /\ input.val[2].qubit_number = 2
    /\ input.val[1].density_matrices[1] = <<Exact(PlusZ)>>
    /\ result.value.metric_values["mle"][100] = <<NumHalf(One)>>
    /\ result.value.printed # <<>>

====
